---- MODULE Spec2Model ----
(***************************************************************************)
(* A model of the trading tracker: the MT4/MT5 trade-history parser        *)
(* (TradeParser), the statistics calculator (StatsCalculator) and the      *)
(* application controller that connects them (processFile), with the       *)
(* calendar it shows (CalendarManager).                                    *)
(*                                                                         *)
(* Money amounts are integers (one unit = the smallest amount a cell of    *)
(* the modelled files can hold); a ratio is kept as numerator/denominator. *)
(***************************************************************************)
EXTENDS Integers, Sequences, FiniteSets, TLC

VARIABLES
    parser,          \* the TradeParser instance: its currency and accountInfo
    currentTrades,   \* the array the last successful processFile stored
    currentCurrency, \* the currency code used to format amounts
    dashboardShown,  \* whether the dashboard (not the upload box) is shown
    call,            \* the processFile call waiting for its file read, if any
    returned,        \* what the last parseFile calls returned, oldest first
    input,      \* the Trade collection handed to new StatsCalculator(trades)
    calc,       \* the StatsCalculator instance: its trades and sortedTrades
    stats,      \* the bundle returned by the last calculateAll()
    passes,     \* the per-trade values of the streak loops' local counters
    calendar    \* the CalendarManager: its month, year, trades and the click
                \* listeners it has put on the two navigation buttons

appVars == <<parser, currentTrades, currentCurrency, dashboardShown, call, returned,
             calendar>>
vars == <<parser, currentTrades, currentCurrency, dashboardShown, call, returned,
          input, calc, stats, passes, calendar>>

(***************************************************************************)
(* Bounds of the explored inputs.                                          *)
(***************************************************************************)
MaxTrades == 3      \* trades in a collection given to the calculator
MaxTime == 2        \* distinct close times 1..MaxTime
MaxProfit == 1      \* net profits range over -MaxProfit..MaxProfit

(***************************************************************************)
(* StatsCalculator                                                         *)
(***************************************************************************)

\* A trade as the calculator reads it.  A trade built by the parser always
\* carries netProfit; a trade handed in by another caller may lack it, and
\* then the record has no netProfit field.
HasNetProfit(trade) == "netProfit" \in DOMAIN trade

getTradeProfit(trade) ==
    IF HasNetProfit(trade) THEN trade.netProfit ELSE trade.profit

\* Array.prototype.sort with the comparator dateA - dateB: a stable sort, so
\* an element goes after every element that does not compare greater.
compareDates(a, b) == a.closeTime - b.closeTime

\* A sort that puts an element before the elements it ties with.
RECURSIVE InsertByDate_unstable(_, _)
InsertByDate_unstable(sorted, t) ==
    IF sorted = << >> THEN <<t>>
    ELSE IF compareDates(Head(sorted), t) < 0
         THEN <<Head(sorted)>> \o InsertByDate_unstable(Tail(sorted), t)
         ELSE <<t>> \o sorted

RECURSIVE InsertByDate(_, _)
InsertByDate(sorted, t) ==
    IF sorted = << >> THEN <<t>>
    ELSE IF compareDates(Head(sorted), t) <= 0
         THEN <<Head(sorted)>> \o InsertByDate(Tail(sorted), t)
         ELSE <<t>> \o sorted

RECURSIVE sortTradesByDate(_)
sortTradesByDate(trades) ==
    IF trades = << >> THEN << >>
    ELSE InsertByDate(sortTradesByDate(SubSeq(trades, 1, Len(trades) - 1)),
                      trades[Len(trades)])

\* A constructor that sorts the array it is given in place, without the
\* spread copy: this.trades, the same array, comes out sorted as well.
NewStatsCalculator_sortInPlace(trades) ==
    [ready |-> TRUE, trades |-> sortTradesByDate(trades),
     sortedTrades |-> sortTradesByDate(trades)]

\* this.trades is the array the caller passed, not a copy of it;
\* this.sortedTrades is a sorted copy ([...trades].sort).
NewStatsCalculator(trades) ==
    [ready |-> TRUE, trades |-> trades, sortedTrades |-> sortTradesByDate(trades)]

NoCalculator == [ready |-> FALSE]

getWinningTrades(c) == SelectSeq(c.trades, LAMBDA t : getTradeProfit(t) > 0)
getLosingTrades(c) == SelectSeq(c.trades, LAMBDA t : getTradeProfit(t) < 0)
getBreakEvenTrades(c) == SelectSeq(c.trades, LAMBDA t : getTradeProfit(t) = 0)

RECURSIVE SumProfit(_)
SumProfit(ts) ==
    IF ts = << >> THEN 0 ELSE getTradeProfit(Head(ts)) + SumProfit(Tail(ts))

Abs(x) == IF x < 0 THEN -x ELSE x

\* Number results that can be a quotient or Infinity.
Infinity == [inf |-> TRUE, num |-> 1, den |-> 0]
Quot(n, d) == [inf |-> FALSE, num |-> n, den |-> d]
Zero == Quot(0, 1)

\* A profit factor that reports Infinity whenever the losses sum to zero.
getProfitFactor_noWins(c) ==
    LET totalWins == SumProfit(getWinningTrades(c))
        totalLosses == Abs(SumProfit(getLosingTrades(c)))
    IN  IF totalLosses = 0 THEN Infinity ELSE Quot(totalWins, totalLosses)

getProfitFactor(c) ==
    LET totalWins == SumProfit(getWinningTrades(c))
        totalLosses == Abs(SumProfit(getLosingTrades(c)))
    IN  IF totalLosses = 0
        THEN (IF totalWins > 0 THEN Infinity ELSE Zero)
        ELSE Quot(totalWins, totalLosses)

getAverageWin(c) ==
    LET wins == getWinningTrades(c)
    IN  IF Len(wins) = 0 THEN Zero ELSE Quot(SumProfit(wins), Len(wins))

getAverageLoss(c) ==
    LET losses == getLosingTrades(c)
    IN  IF Len(losses) = 0 THEN Zero ELSE Quot(SumProfit(losses), Len(losses))

\* avgWin / avgLoss with avgLoss = |getAverageLoss()|: the quotient of two
\* quotients, (w.num / w.den) / (|l.num| / l.den).
getRiskRewardRatio(c) ==
    LET avgWin == getAverageWin(c)
        avgLoss == getAverageLoss(c)
    IN  IF Abs(avgLoss.num) = 0
        THEN (IF avgWin.num > 0 THEN Infinity ELSE Zero)
        ELSE Quot(avgWin.num * avgLoss.den, avgWin.den * Abs(avgLoss.num))

RECURSIVE EquityLoop(_, _, _)
EquityLoop(rest, equity, curve) ==
    IF rest = << >> THEN curve
    ELSE LET e == equity + getTradeProfit(Head(rest))
         IN  EquityLoop(Tail(rest), e,
                        Append(curve, [date |-> Head(rest).closeTime,
                                       equity |-> e,
                                       trade |-> Head(rest)]))

\* An equity curve accumulated in input order instead of close-time order.
getEquityCurve_unsorted(c) == EquityLoop(c.trades, 0, << >>)

getEquityCurve(c) == EquityLoop(c.sortedTrades, 0, << >>)

\* A drawdown measured from the previous point instead of the running peak.
RECURSIVE DrawdownLoop_fromPrevious(_, _, _)
DrawdownLoop_fromPrevious(rest, peak, maxDrawdown) ==
    IF rest = << >> THEN maxDrawdown
    ELSE LET point == Head(rest)
             drawdown == peak - point.equity
         IN  DrawdownLoop_fromPrevious(Tail(rest), point.equity,
                          IF drawdown > maxDrawdown THEN drawdown ELSE maxDrawdown)

\* A running peak that starts at zero equity instead of at the first point.
InitialPeak_zero(equityCurve) == 0

InitialPeak(equityCurve) == equityCurve[1].equity

RECURSIVE DrawdownLoop(_, _, _)
DrawdownLoop(rest, peak, maxDrawdown) ==
    IF rest = << >> THEN maxDrawdown
    ELSE LET point == Head(rest)
             peak2 == IF point.equity > peak THEN point.equity ELSE peak
             drawdown == peak2 - point.equity
         IN  DrawdownLoop(Tail(rest), peak2,
                          IF drawdown > maxDrawdown THEN drawdown ELSE maxDrawdown)

getMaxDrawdown(c) ==
    LET equityCurve == getEquityCurve(c)
    IN  IF Len(equityCurve) = 0 THEN 0
        ELSE DrawdownLoop(equityCurve, InitialPeak(equityCurve), 0)

Max(a, b) == IF a > b THEN a ELSE b

\* A win streak that a losing or breakeven trade does not end.
WinStreakBody_noReset(st, trade) ==
    IF getTradeProfit(trade) > 0
    THEN [currentStreak |-> st.currentStreak + 1,
          maxStreak |-> Max(st.maxStreak, st.currentStreak + 1)]
    ELSE st

\* One iteration of the loop of getMaxWinStreak / getMaxLoseStreak.
WinStreakBody(st, trade) ==
    IF getTradeProfit(trade) > 0
    THEN [currentStreak |-> st.currentStreak + 1,
          maxStreak |-> Max(st.maxStreak, st.currentStreak + 1)]
    ELSE [currentStreak |-> 0, maxStreak |-> st.maxStreak]

\* A lose streak that a breakeven trade extends.
LoseStreakBody_breakeven(st, trade) ==
    IF getTradeProfit(trade) <= 0
    THEN [currentStreak |-> st.currentStreak + 1,
          maxStreak |-> Max(st.maxStreak, st.currentStreak + 1)]
    ELSE [currentStreak |-> 0, maxStreak |-> st.maxStreak]

LoseStreakBody(st, trade) ==
    IF getTradeProfit(trade) < 0
    THEN [currentStreak |-> st.currentStreak + 1,
          maxStreak |-> Max(st.maxStreak, st.currentStreak + 1)]
    ELSE [currentStreak |-> 0, maxStreak |-> st.maxStreak]

StreakStart == [currentStreak |-> 0, maxStreak |-> 0]

\* The counters after each trade of the win-streak loop, in loop order.
RECURSIVE WinStreakLoop(_, _, _)
WinStreakLoop(rest, st, trace) ==
    IF rest = << >> THEN trace
    ELSE LET st2 == WinStreakBody(st, Head(rest))
         IN  WinStreakLoop(Tail(rest), st2, Append(trace, st2))

RECURSIVE LoseStreakLoop(_, _, _)
LoseStreakLoop(rest, st, trace) ==
    IF rest = << >> THEN trace
    ELSE LET st2 == LoseStreakBody(st, Head(rest))
         IN  LoseStreakLoop(Tail(rest), st2, Append(trace, st2))

LastMax(trace) == IF trace = << >> THEN 0 ELSE trace[Len(trace)].maxStreak

getMaxWinStreak(c) == LastMax(WinStreakLoop(c.sortedTrades, StreakStart, << >>))
getMaxLoseStreak(c) == LastMax(LoseStreakLoop(c.sortedTrades, StreakStart, << >>))

MaxBins == 20

\* Math.ceil(Math.sqrt(n)) for a length n.
CeilSqrt(n) == CHOOSE k \in 0 .. n : k * k >= n /\ \A j \in 0 .. k - 1 : j * j < n

MinOf(S) == CHOOSE x \in S : \A y \in S : x <= y
MaxOf(S) == CHOOSE x \in S : \A y \in S : y <= x

\* getPnLDistribution.  binStart of bin i (from 0) is min + i * range /
\* binCount and binEnd is binStart + binSize; the tests p >= binStart and
\* p < binEnd are made on the numerators over the common denominator
\* binCount.  centers holds binCenter before it is printed as a label; the
\* colours follow from its sign and are not kept.
getPnLDistribution(c) ==
    LET profits == [k \in 1 .. Len(c.trades) |-> getTradeProfit(c.trades[k])]
    IN  IF Len(profits) = 0 THEN [centers |-> << >>, counts |-> << >>]
        ELSE LET values == { profits[k] : k \in 1 .. Len(profits) }
                 min == MinOf(values)
                 max == MaxOf(values)
                 range == max - min
                 sqrt == CeilSqrt(Len(profits))
                 binCount == IF MaxBins < sqrt THEN MaxBins ELSE sqrt
                 binStart(i) == min * binCount + i * range
                 binEnd(i) == binStart(i) + range
             IN  [centers |-> [b \in 1 .. binCount |->
                                  Quot(binStart(b - 1) + binEnd(b - 1), 2 * binCount)],
                  counts |-> [b \in 1 .. binCount |->
                                 Cardinality({ k \in 1 .. Len(profits) :
                                     /\ profits[k] * binCount >= binStart(b - 1)
                                     /\ profits[k] * binCount < binEnd(b - 1) })]]

calculateAll(c) ==
    [ready |-> TRUE,
     totalTrades |-> Len(c.trades),
     profitFactor |-> getProfitFactor(c),
     winningTrades |-> Len(getWinningTrades(c)),
     losingTrades |-> Len(getLosingTrades(c)),
     breakEvenTrades |-> Len(getBreakEvenTrades(c)),
     avgWin |-> getAverageWin(c),
     avgLoss |-> getAverageLoss(c),
     maxDrawdown |-> getMaxDrawdown(c),
     maxWinStreak |-> getMaxWinStreak(c),
     maxLoseStreak |-> getMaxLoseStreak(c),
     riskRewardRatio |-> getRiskRewardRatio(c),
     equityCurve |-> getEquityCurve(c),
     pnlDistribution |-> getPnLDistribution(c)]

NoStats == [ready |-> FALSE]
NoPasses == [win |-> << >>, lose |-> << >>]

StreakPasses(c) ==
    [win |-> WinStreakLoop(c.sortedTrades, StreakStart, << >>),
     lose |-> LoseStreakLoop(c.sortedTrades, StreakStart, << >>)]

(***************************************************************************)
(* Cell text                                                               *)
(*                                                                         *)
(* A cell holds one of the texts below.  The string functions and regular  *)
(* expressions of the parser are tabulated on these texts.  Numbers are    *)
(* kept in hundredths (0.01 is 1, 50 is 5000).                             *)
(***************************************************************************)

\* values[i] past the end of a row, or a property never set
Undefined == "<undefined>"

NaN == << >>
Num(v) == <<v>>

\* parseFloat(text): the leading number of the text, or NaN
parseFloat(text) ==
    CASE text = "0.1" -> Num(10)
      [] text = "50" -> Num(5000)
      [] text = "-30" -> Num(-3000)
      [] text = "-2" -> Num(-200)
      [] text = "-1" -> Num(-100)
      [] text = "1 250" -> Num(100)
      [] text = "1250" -> Num(125000)
      [] text = "1001" -> Num(100100)
      [] text = "1002" -> Num(100200)
      [] text = "2024.01.15 10:00:00" -> Num(202401)
      [] text = "2024.01.16 11:30:00" -> Num(202401)
      [] OTHER -> NaN

\* x || d for a number x: NaN and 0 are falsy
OrElse(x, d) == IF x = NaN \/ x = Num(0) THEN d ELSE x[1]

\* value.toString().replace(/\s/g, '').replace(',', '.')
Cleaned(text) == IF text = "1 250" THEN "1250" ELSE text

parseNumber(value) ==
    IF value = "" \/ value = Undefined THEN 0
    ELSE LET num == parseFloat(Cleaned(value))
         IN  IF num = NaN THEN 0 ELSE num[1]

\* new Date(): the time of the parse, later than every time in a file
Now == 3

parseDate(value) ==
    CASE value = "2024.01.15 10:00:00" -> 1
      [] value = "2024.01.16 11:30:00" -> 2
      [] OTHER -> Now

toLowerCase(text) ==
    CASE text = "Symbol" -> "symbol"
      [] text = "Type" -> "type"
      [] text = "Volume" -> "volume"
      [] text = "Profit" -> "profit"
      [] text = "Commission" -> "commission"
      [] text = "Swap" -> "swap"
      [] text = "Price" -> "price"
      [] text = "Time" -> "time"
      [] text = "Ticket" -> "ticket"
      [] text = "Balance" -> "balance"
      [] text = "Sell" -> "sell"
      [] text = "Position" -> "position"
      [] text = "Positions" -> "positions"
      [] text = "Orders" -> "orders"
      [] text = "S / L" -> "s / l"
      [] text = "T / P" -> "t / p"
      [] text = "Open Time" -> "open time"
      [] text = "Close Time" -> "close time"
      [] text = "Open Price" -> "open price"
      [] text = "Close Price" -> "close price"
      [] text = "Size" -> "size"
      [] text = "S/L" -> "s/l"
      [] text = "T/P" -> "t/p"
      [] text = "TRADES.CSV" -> "trades.csv"
      [] text = "EURUSD" -> "eurusd"
      [] text = "UNKNOWN" -> "unknown"
      [] OTHER -> text

toUpperCase(text) ==
    CASE text = "gbp" -> "GBP"
      [] text = "Symbol" -> "SYMBOL"
      [] text = "Volume" -> "VOLUME"
      [] text = "Profit" -> "PROFIT"
      [] text = "Commission" -> "COMMISSION"
      [] text = "Position" -> "POSITION"
      [] text = "Positions" -> "POSITIONS"
      [] text = "Orders" -> "ORDERS"
      [] text = "Ticket" -> "TICKET"
      [] OTHER -> text

\* A normalizeType that calls every side a buy.
normalizeType_alwaysBuy(value) == "buy"

\* normalizeType: 'sell' when the lower-cased text includes sell or short or
\* is '1', else 'buy'; value.toString() throws on undefined.
normalizeType(value) ==
    IF toLowerCase(value) = "sell" THEN "sell" ELSE "buy"

\* The patterns of detectCSVColumns, tested on a lower-cased header cell.
CSVFields ==
    {"ticket", "openTime", "closeTime", "type", "volume", "symbol", "openPrice",
     "closePrice", "profit", "commission", "swap", "sl", "tp"}

CSVPatternTest(key, col) ==
    \/ key = "ticket" /\ col \in {"ticket", "orders"}
    \/ key = "openTime" /\ col = "open time"
    \/ key = "closeTime" /\ col = "close time"
    \/ key = "type" /\ col = "type"
    \/ key = "volume" /\ col \in {"volume", "size"}
    \/ key = "openPrice" /\ col = "open price"
    \/ key = "closePrice" /\ col = "close price"
    \/ key = "sl" /\ col = "s/l"
    \/ key = "tp" /\ col = "t/p"
    \/ key = "symbol" /\ col = "symbol"
    \/ key = "profit" /\ col = "profit"
    \/ key = "commission" /\ col = "commission"
    \/ key = "swap" /\ col = "swap"

\* The patterns of detectHTMLColumns, tested on a header cell as written.
HTMLFields ==
    {"ticket", "openTime", "closeTime", "type", "volume", "symbol", "openPrice",
     "closePrice", "profit", "commission", "swap"}

HTMLPatternTest(key, val) ==
    \/ key = "ticket" /\ val \in {"Ticket", "Orders"}
    \/ key = "openTime" /\ val \in {"Time", "Open Time", "Close Time"}
    \/ key = "closeTime" /\ val = "Close Time"
    \/ key = "type" /\ val = "Type"
    \/ key = "volume" /\ val \in {"Volume", "Size"}
    \/ key = "openPrice" /\ val = "Open Price"
    \/ key = "closePrice" /\ val = "Close Price"
    \/ key = "symbol" /\ val = "Symbol"
    \/ key = "profit" /\ val = "Profit"
    \/ key = "commission" /\ val = "Commission"
    \/ key = "swap" /\ val = "Swap"

\* isHeaderRow: the joined text includes one of ticket, symbol, type,
\* volume, profit, time, price, order.
HasHeaderKeyword(text) ==
    text \in {"Symbol", "Type", "Volume", "Profit", "Price", "Time", "Orders", "Ticket"}

\* isNonTradeRow: the joined text matches balance, deposit, withdraw, ^total,
\* closed p/l, summary, credit or rebate.
HasSkipPattern(text) == text \in {"Balance", "balance"}

\* parseGenericHTMLRow: /^-?\$?[\d\s]+\.?\d*$/ on the text without spaces
LooksNumeric(text) ==
    text \in {"0.1", "50", "-30", "-2", "-1", "1 250", "1001", "1002"}

\* parseGenericHTMLRow: /^[A-Z]{6,}$/i or /[A-Z]{3}[\/]?[A-Z]{3}/i
LooksLikeSymbol(text) ==
    text \in {"Symbol", "Volume", "Profit", "Commission", "Position", "Positions",
              "Orders", "Balance", "Ticket", "EURUSD", "UNKNOWN", "balance"}

\* parseGenericHTMLRow: /sell|short/i
LooksLikeSell(text) == text \in {"sell", "Sell"}

\* parseFloat(text.replace(/[^\d.-]/g, ''))
parseProfitText(text) == parseFloat(Cleaned(text))

\* rowText.includes(word) for the words 'Position' and 'Symbol'
TextIncludes(text, word) ==
    \/ word = "Position" /\ text \in {"Position", "Positions"}
    \/ word = "Symbol" /\ text = "Symbol"

\* Date.now().toString() [+ a random suffix]: a synthesized ticket
SyntheticTicket == "<synthetic>"

(***************************************************************************)
(* TradeParser                                                             *)
(***************************************************************************)

\* values[index], with JavaScript's 0-based index
At(values, index) ==
    IF index + 1 <= Len(values) THEN values[index + 1] ELSE Undefined

\* obj[key] = value on an object kept as a function from its keys
Put(obj, key, value) ==
    [k \in DOMAIN obj \cup {key} |-> IF k = key THEN value ELSE obj[k]]

EmptyObject == << >>

\* What normalizing one row gives: a trade, null, or a thrown exception.
RowTrade(trade) == [kind |-> "trade", trade |-> trade]
RowNull == [kind |-> "null"]
RowThrew == [kind |-> "threw"]

NoMap == [null |-> TRUE]

\* parseCSVLine on characters.  A line is the sequence of its characters and
\* a cell the sequence of the characters it keeps.
Quote == "\""
Tab == "\t"
Delimiters == {",", ";", Tab}

\* String.prototype.trim on the characters a line can hold: the white space
\* is the blank and the tab.
WhiteSpace == {" ", Tab}

RECURSIVE TrimStart(_)
TrimStart(text) ==
    IF text # << >> /\ Head(text) \in WhiteSpace THEN TrimStart(Tail(text)) ELSE text

RECURSIVE TrimEnd(_)
TrimEnd(text) ==
    IF text # << >> /\ text[Len(text)] \in WhiteSpace
    THEN TrimEnd(SubSeq(text, 1, Len(text) - 1))
    ELSE text

trim(text) == TrimEnd(TrimStart(text))

\* A split that takes a delimiter for a separator inside quotes as well.
CSVChar_ignoreQuotes(st, char) ==
    IF char = Quote THEN [st EXCEPT !.inQuotes = ~st.inQuotes]
    ELSE IF char \in Delimiters
    THEN [values |-> Append(st.values, trim(st.current)), current |-> << >>,
          inQuotes |-> st.inQuotes]
    ELSE [st EXCEPT !.current = Append(st.current, char)]

\* The body of for (let char of line)
CSVChar(st, char) ==
    IF char = Quote THEN [st EXCEPT !.inQuotes = ~st.inQuotes]
    ELSE IF char \in Delimiters /\ ~st.inQuotes
    THEN [values |-> Append(st.values, trim(st.current)), current |-> << >>,
          inQuotes |-> st.inQuotes]
    ELSE [st EXCEPT !.current = Append(st.current, char)]

RECURSIVE CSVLineLoop(_, _)
CSVLineLoop(rest, st) ==
    IF rest = << >> THEN st ELSE CSVLineLoop(Tail(rest), CSVChar(st, Head(rest)))

parseCSVLine(line) ==
    LET st == CSVLineLoop(line, [values |-> << >>, current |-> << >>,
                                 inQuotes |-> FALSE])
    IN  Append(st.values, trim(st.current))

\* A forEach body that lets a later matching column take a field over.
DetectCSVBody_lastWins(map, col, index) ==
    LET hit == { key \in CSVFields : CSVPatternTest(key, col) }
    IN  [k \in DOMAIN map \cup hit |-> IF k \in hit THEN index ELSE map[k]]

\* detectCSVColumns: the body of columns.forEach((col, index) => ...), the
\* for loop over the patterns that sets map[key] where it is undefined.
DetectCSVBody(map, col, index) ==
    LET hit == { key \in CSVFields :
                     CSVPatternTest(key, col) /\ key \notin DOMAIN map }
    IN  [k \in DOMAIN map \cup hit |-> IF k \in hit THEN index ELSE map[k]]

\* detectCSVColumns / detectHTMLColumns: columns.forEach((col, index) => ...)
RECURSIVE DetectCSVLoop(_, _, _)
DetectCSVLoop(columns, index, map) ==
    IF index >= Len(columns) THEN map
    ELSE DetectCSVLoop(columns, index + 1,
                       DetectCSVBody(map, At(columns, index), index))

\* An inference that takes the broker-standard column order for granted.
detectCSVColumns_positional(header) ==
    [ticket |-> 0, openTime |-> 1, type |-> 2, volume |-> 3, symbol |-> 4,
     openPrice |-> 5, sl |-> 6, tp |-> 7, closeTime |-> 8, closePrice |-> 9,
     commission |-> 10, swap |-> 11, profit |-> 12]

detectCSVColumns(header) ==
    LET map == DetectCSVLoop(header, 0, EmptyObject)
    IN  IF "symbol" \in DOMAIN map /\ "profit" \in DOMAIN map THEN map ELSE NoMap

DetectHTMLBody(map, val, index) ==
    LET hit == { key \in HTMLFields :
                     HTMLPatternTest(key, val) /\ key \notin DOMAIN map }
    IN  [k \in DOMAIN map \cup hit |-> IF k \in hit THEN index ELSE map[k]]

RECURSIVE DetectHTMLLoop(_, _, _)
DetectHTMLLoop(values, index, map) ==
    IF index >= Len(values) THEN map
    ELSE DetectHTMLLoop(values, index + 1,
                        DetectHTMLBody(map, At(values, index), index))

MinHTMLKeys == 3

detectHTMLColumns(values) ==
    LET map == DetectHTMLLoop(values, 0, EmptyObject)
    IN  IF Cardinality(DOMAIN map) >= MinHTMLKeys THEN map ELSE NoMap

DefaultVolume == 1

\* A net profit that leaves the swap out.
NetProfitOf_noSwap(profit, commission, swap) == profit + commission

NetProfitOf(profit, commission, swap) == profit + commission + swap

mapColumnsToTrade(values, map) ==
    LET Has(key) == key \in DOMAIN map
        V(key) == At(values, map[key])
    IN  IF Has("type") /\ V("type") = Undefined THEN RowThrew
        ELSE LET profit == IF Has("profit") THEN OrElse(parseFloat(V("profit")), 0) ELSE 0
                 commission ==
                     IF Has("commission") THEN OrElse(parseFloat(V("commission")), 0) ELSE 0
                 swap == IF Has("swap") THEN OrElse(parseFloat(V("swap")), 0) ELSE 0
             IN  RowTrade(
                  [ticket |-> IF Has("ticket") THEN V("ticket") ELSE SyntheticTicket,
                   symbol |-> IF Has("symbol") THEN V("symbol") ELSE "UNKNOWN",
                   type |-> IF Has("type") THEN normalizeType(V("type")) ELSE "buy",
                   volume |-> IF Has("volume")
                              THEN OrElse(parseFloat(V("volume")), DefaultVolume)
                              ELSE DefaultVolume,
                   openPrice |-> IF Has("openPrice")
                                 THEN OrElse(parseFloat(V("openPrice")), 0) ELSE 0,
                   closePrice |-> IF Has("closePrice")
                                  THEN OrElse(parseFloat(V("closePrice")), 0) ELSE 0,
                   profit |-> profit,
                   commission |-> commission,
                   swap |-> swap,
                   openTime |-> IF Has("openTime") THEN parseDate(V("openTime")) ELSE Now,
                   closeTime |-> IF Has("closeTime") THEN parseDate(V("closeTime")) ELSE Now,
                   netProfit |-> NetProfitOf(profit, commission, swap)])

LongRowLength == 13
ShortRowLength == 6

parseGenericCSVRow(values) ==
    IF Len(values) >= LongRowLength
    THEN RowTrade(
          [ticket |-> At(values, 0),
           openTime |-> parseDate(At(values, 1)),
           type |-> normalizeType(At(values, 2)),
           volume |-> OrElse(parseFloat(At(values, 3)), DefaultVolume),
           symbol |-> At(values, 4),
           openPrice |-> OrElse(parseFloat(At(values, 5)), 0),
           closeTime |-> parseDate(At(values, 8)),
           closePrice |-> OrElse(parseFloat(At(values, 9)), 0),
           commission |-> OrElse(parseFloat(At(values, 10)), 0),
           swap |-> OrElse(parseFloat(At(values, 11)), 0),
           profit |-> OrElse(parseFloat(At(values, 12)), 0),
           netProfit |-> OrElse(parseFloat(At(values, 12)), 0)
                         + OrElse(parseFloat(At(values, 10)), 0)
                         + OrElse(parseFloat(At(values, 11)), 0)])
    ELSE IF Len(values) >= ShortRowLength
    THEN LET profit == OrElse(parseFloat(At(values, Len(values) - 1)), 0)
         IN  RowTrade(
              [ticket |-> SyntheticTicket,
               symbol |-> At(values, 0),
               type |-> normalizeType(At(values, 1)),
               volume |-> OrElse(parseFloat(At(values, 2)), DefaultVolume),
               openPrice |-> OrElse(parseFloat(At(values, 3)), 0),
               closePrice |-> OrElse(parseFloat(At(values, 4)), 0),
               profit |-> profit,
               commission |-> 0,
               swap |-> 0,
               netProfit |-> profit,
               openTime |-> Now,
               closeTime |-> Now])
    ELSE RowNull

isValidTrade(trade) ==
    /\ trade.symbol # "" /\ trade.symbol # Undefined
    /\ trade.symbol # "UNKNOWN"

\* parseGenericHTMLRow
RECURSIVE LastNumericIndex(_, _)
LastNumericIndex(cleaned, i) ==
    IF i < 0 THEN -1
    ELSE IF LooksNumeric(At(cleaned, i)) THEN i
    ELSE LastNumericIndex(cleaned, i - 1)

RECURSIVE FirstSymbol(_)
FirstSymbol(cleaned) ==
    IF cleaned = << >> THEN "UNKNOWN"
    ELSE IF LooksLikeSymbol(Head(cleaned)) THEN toUpperCase(Head(cleaned))
    ELSE FirstSymbol(Tail(cleaned))

parseGenericHTMLRow(values) ==
    LET cleaned == SelectSeq(values, LAMBDA v : v # "")
        profitIndex == LastNumericIndex(cleaned, Len(cleaned) - 1)
    IN  IF profitIndex = -1 THEN RowNull
        ELSE LET profit == OrElse(parseProfitText(At(cleaned, profitIndex)), 0)
             IN  RowTrade(
                  [ticket |-> SyntheticTicket,
                   symbol |-> FirstSymbol(cleaned),
                   type |-> IF \E i \in 1 .. Len(cleaned) : LooksLikeSell(cleaned[i])
                            THEN "sell" ELSE "buy",
                   volume |-> DefaultVolume,
                   openPrice |-> 0,
                   closePrice |-> 0,
                   profit |-> profit,
                   commission |-> 0,
                   swap |-> 0,
                   netProfit |-> profit,
                   openTime |-> Now,
                   closeTime |-> Now])

isHeaderRow(values) == \E i \in 1 .. Len(values) : HasHeaderKeyword(values[i])
isNonTradeRow(values) == \E i \in 1 .. Len(values) : HasSkipPattern(values[i])

\* A row loop in which a throwing row discards what was collected before it.
PushIfValid_abort(trades, outcome) ==
    IF outcome.kind = "threw" THEN << >>
    ELSE IF outcome.kind = "trade" /\ isValidTrade(outcome.trade)
    THEN Append(trades, outcome.trade)
    ELSE trades

\* The part of the row loops shared by parseCSV and parseHTMLTable:
\* if (trade && this.isValidTrade(trade)) trades.push(trade), inside try/catch.
PushIfValid(trades, outcome) ==
    IF outcome.kind = "trade" /\ isValidTrade(outcome.trade)
    THEN Append(trades, outcome.trade)
    ELSE trades

Failure(message) == [ok |-> FALSE, error |-> message]
ErrUnsupported == "Unsupported file format. Please upload CSV or HTML files."
ErrRead == "Failed to read file"
ErrEmptyCSV == "CSV file appears to be empty"
ErrNoTradesCSV == "No valid trades found in CSV file"
ErrNoTradesHTML == "No valid trades found in HTML file"

(***************************************************************************)
(* parseCSV.  The content is its lines, each line the cells parseCSVLine   *)
(* splits it into; a line of white space only is the empty sequence.       *)
(***************************************************************************)
MinLines == 2
MinCSVCells == 5

RECURSIVE CSVRowLoop(_, _, _, _)
CSVRowLoop(lines, i, columnMap, trades) ==
    IF i >= Len(lines) THEN trades
    ELSE LET values == At(lines, i)
         IN  IF Len(values) < MinCSVCells
             THEN CSVRowLoop(lines, i + 1, columnMap, trades)
             ELSE CSVRowLoop(lines, i + 1, columnMap,
                      PushIfValid(trades,
                          IF columnMap # NoMap
                          THEN mapColumnsToTrade(values, columnMap)
                          ELSE parseGenericCSVRow(values)))

LowerCells(line) == [i \in 1 .. Len(line) |-> toLowerCase(line[i])]

\* A parseCSV that returns whatever it collected, an empty array included.
CSVResult_allowEmpty(trades) == [ok |-> TRUE, trades |-> trades, meta |-> FALSE]

CSVResult(trades) ==
    IF Len(trades) = 0 THEN Failure(ErrNoTradesCSV)
    ELSE [ok |-> TRUE, trades |-> trades, meta |-> FALSE]

parseCSV(content) ==
    LET lines == SelectSeq(content, LAMBDA line : line # << >>)
    IN  IF Len(lines) < MinLines THEN Failure(ErrEmptyCSV)
        ELSE LET columnMap == detectCSVColumns(LowerCells(lines[1]))
                 startIndex == IF columnMap # NoMap THEN 1 ELSE 0
             IN  CSVResult(CSVRowLoop(lines, startIndex, columnMap, << >>))

(***************************************************************************)
(* parseHTML.  A document is the captures of the account-info patterns on  *)
(* its body text ("" where a pattern does not match) and its tables, each  *)
(* a sequence of rows, each row a sequence of cells with a tag, a class    *)
(* attribute and a text.                                                   *)
(***************************************************************************)
Cell(tag, class, text) == [tag |-> tag, class |-> class, text |-> text]
td(text) == Cell("td", "", text)
th(text) == Cell("th", "", text)

\* (cell.getAttribute('class') || '').includes('hidden')
ClassIncludesHidden(cell) == cell.class = "hidden"
\* cell.classList.contains('hidden')
ClassListContainsHidden(cell) == cell.class = "hidden"

Texts(cells) == [i \in 1 .. Len(cells) |-> cells[i].text]

\* extractAccountInfo: the currency is overwritten and the fields of the
\* accountInfo object are set only where a pattern matches.
extractAccountInfo(this, doc) ==
    LET withAccount ==
            IF doc.account # "" THEN Put(this.accountInfo, "accountNumber", doc.account)
            ELSE this.accountInfo
        withName ==
            IF doc.name # "" THEN Put(withAccount, "name", doc.name) ELSE withAccount
    IN  [currency |-> IF doc.currency # "" THEN toUpperCase(doc.currency)
                      ELSE this.currency,
         accountInfo |-> withName]

\* new TradeParser()
NewTradeParser == [currency |-> "USD", accountInfo |-> EmptyObject]

\* doc.querySelectorAll('tr'): the rows of all tables in document order
RECURSIVE AllRows(_)
AllRows(tables) ==
    IF tables = << >> THEN << >> ELSE Head(tables) \o AllRows(Tail(tables))

\* A section loop whose closing marker leaves positionsHeaderFound set.
RECURSIVE SectionLoop_keepHeader(_, _)
SectionLoop_keepHeader(ths, flags) ==
    IF ths = << >> THEN flags
    ELSE LET thText == Head(ths).text
         IN  IF thText = "Positions"
             THEN SectionLoop_keepHeader(Tail(ths),
                                         [flags EXCEPT !.inPositionsSection = TRUE])
             ELSE IF flags.inPositionsSection /\ thText \in {"Orders", "Deals", "Results"}
             THEN SectionLoop_keepHeader(Tail(ths),
                                         [flags EXCEPT !.inPositionsSection = FALSE])
             ELSE SectionLoop_keepHeader(Tail(ths), flags)

\* for (const th of thElements) { ... }: the section flags after the th
\* cells of one row
RECURSIVE SectionLoop(_, _)
SectionLoop(ths, flags) ==
    IF ths = << >> THEN flags
    ELSE LET thText == Head(ths).text
         IN  IF thText = "Positions"
             THEN SectionLoop(Tail(ths), [flags EXCEPT !.inPositionsSection = TRUE])
             ELSE IF flags.inPositionsSection /\ thText \in {"Orders", "Deals", "Results"}
             THEN SectionLoop(Tail(ths), [inPositionsSection |-> FALSE,
                                          positionsHeaderFound |-> FALSE])
             ELSE SectionLoop(Tail(ths), flags)

MinDataCells == 5
PositionsRowLength == 13

\* The trade of one data row of the Positions section
MT5Trade(visibleValues) ==
    LET profit == parseNumber(At(visibleValues, 12))
        commission == parseNumber(At(visibleValues, 10))
        swap == parseNumber(At(visibleValues, 11))
    IN  [ticket |-> At(visibleValues, 1),
         symbol |-> At(visibleValues, 2),
         type |-> toLowerCase(At(visibleValues, 3)),
         volume |-> parseNumber(At(visibleValues, 4)),
         openPrice |-> parseNumber(At(visibleValues, 5)),
         sl |-> parseNumber(At(visibleValues, 6)),
         tp |-> parseNumber(At(visibleValues, 7)),
         closeTime |-> parseDate(At(visibleValues, 8)),
         closePrice |-> parseNumber(At(visibleValues, 9)),
         commission |-> commission,
         swap |-> swap,
         profit |-> profit,
         openTime |-> parseDate(At(visibleValues, 0)),
         netProfit |-> NetProfitOf(profit, commission, swap)]

\* if (...) trades.push(trade) for a data row of the Positions section
MT5Push(trades, trade) == Append(trades, trade)

RECURSIVE MT5RowLoop(_, _, _)
MT5RowLoop(rows, flags, trades) ==
    IF rows = << >> THEN trades
    ELSE LET row == Head(rows)
             flags2 == SectionLoop(SelectSeq(row, LAMBDA c : c.tag = "th"), flags)
             isHeader ==
                 /\ Len(row) > 0
                 /\ row[1].text = "Time"
                 /\ \E i \in 1 .. Len(row) : TextIncludes(row[i].text, "Position")
                 /\ \E i \in 1 .. Len(row) : TextIncludes(row[i].text, "Symbol")
             dataCells == SelectSeq(row, LAMBDA c : c.tag = "td")
             visibleValues ==
                 Texts(SelectSeq(dataCells, LAMBDA c : ~ClassIncludesHidden(c)))
         IN  IF ~flags2.inPositionsSection
             THEN MT5RowLoop(Tail(rows), flags2, trades)
             ELSE IF isHeader
             THEN MT5RowLoop(Tail(rows),
                             [flags2 EXCEPT !.positionsHeaderFound = TRUE], trades)
             ELSE IF ~flags2.positionsHeaderFound
                     \/ Len(dataCells) < MinDataCells
                     \/ Len(visibleValues) < PositionsRowLength
                     \/ toLowerCase(At(visibleValues, 3)) \notin {"buy", "sell"}
             THEN MT5RowLoop(Tail(rows), flags2, trades)
             ELSE MT5RowLoop(Tail(rows), flags2,
                             MT5Push(trades, MT5Trade(visibleValues)))

parseMT5Report(doc) ==
    MT5RowLoop(AllRows(doc.tables),
               [inPositionsSection |-> FALSE, positionsHeaderFound |-> FALSE], << >>)

MinTableCells == 4
MinTableRows == 2

RECURSIVE HTMLTableLoop(_, _, _)
HTMLTableLoop(rows, headerMap, trades) ==
    IF rows = << >> THEN trades
    ELSE LET cells == Head(rows)
             cellValues == Texts(SelectSeq(cells, LAMBDA c : ~ClassListContainsHidden(c)))
         IN  IF Len(cells) < MinTableCells
             THEN HTMLTableLoop(Tail(rows), headerMap, trades)
             ELSE IF headerMap = NoMap /\ isHeaderRow(cellValues)
             THEN HTMLTableLoop(Tail(rows), detectHTMLColumns(cellValues), trades)
             ELSE IF isNonTradeRow(cellValues)
             THEN HTMLTableLoop(Tail(rows), headerMap, trades)
             ELSE HTMLTableLoop(Tail(rows), headerMap,
                      PushIfValid(trades,
                          IF headerMap # NoMap
                          THEN mapColumnsToTrade(cellValues, headerMap)
                          ELSE parseGenericHTMLRow(cellValues)))

parseHTMLTable(rows) == HTMLTableLoop(rows, NoMap, << >>)

RECURSIVE TablesLoop(_, _)
TablesLoop(tables, trades) ==
    IF tables = << >> THEN trades
    ELSE IF Len(Head(tables)) < MinTableRows
    THEN TablesLoop(Tail(tables), trades)
    ELSE TablesLoop(Tail(tables), trades \o parseHTMLTable(Head(tables)))

\* The accountInfo attached to a result is the parser's own accountInfo
\* object, not a copy of it: the result holds this reference.
ParserAccountInfo == "this.accountInfo"

HTMLResult(trades, this) ==
    IF Len(trades) = 0 THEN Failure(ErrNoTradesHTML)
    ELSE [ok |-> TRUE, trades |-> trades, meta |-> TRUE,
          currency |-> this.currency, accountInfo |-> ParserAccountInfo]

\* parseHTML: the result, and the parser as the call leaves it
parseHTML(this, doc) ==
    LET this2 == extractAccountInfo(this, doc)
        mt5Trades == parseMT5Report(doc)
    IN  [parser |-> this2,
         result |-> IF Len(mt5Trades) > 0
                    THEN HTMLResult(mt5Trades, this2)
                    ELSE HTMLResult(TablesLoop(doc.tables, << >>), this2)]

(***************************************************************************)
(* parseFile.  A file is its name, whether reading it succeeds, and its    *)
(* content: lines for delimited text, a document for markup.               *)
(***************************************************************************)
EndsWith(name, suffix) ==
    \/ suffix = ".csv" /\ name \in {"trades.csv"}
    \/ suffix = ".html" /\ name \in {"report.html"}
    \/ suffix = ".htm" /\ name \in {"report.htm"}

IsHtmlName(name) == EndsWith(name, ".html") \/ EndsWith(name, ".htm")

\* The part of parseFile that runs once readFileContent has settled.
AfterRead(this, file) ==
    IF ~file.readable THEN [parser |-> this, result |-> Failure(ErrRead)]
    ELSE IF EndsWith(toLowerCase(file.name), ".csv")
    THEN [parser |-> this, result |-> parseCSV(file.content.lines)]
    ELSE IF IsHtmlName(toLowerCase(file.name))
    THEN parseHTML(this, file.content)
    ELSE [parser |-> this, result |-> Failure(ErrUnsupported)]

(***************************************************************************)
(* readFileContent for markup: the reader's onload picks the decoder from  *)
(* the bytes of the buffer.                                                *)
(***************************************************************************)
SampleWindow == 100
PatternThreshold == 20
FirstPrintable == 32        \* 0x20
LastPrintable == 126        \* 0x7E

Min(a, b) == IF a < b THEN a ELSE b

\* bytes[0] === first && bytes[1] === second
StartsWith(bytes, first, second) ==
    Len(bytes) >= 2 /\ bytes[1] = first /\ bytes[2] = second

\* for (let i = 0; i < Math.min(100, bytes.length - 1); i += 2) { ... }
RECURSIVE PatternLoop(_, _, _)
PatternLoop(bytes, i, utf16LePattern) ==
    IF i >= Min(SampleWindow, Len(bytes) - 1) THEN utf16LePattern
    ELSE PatternLoop(bytes, i + 2,
             IF /\ At(bytes, i) >= FirstPrintable
                /\ At(bytes, i) <= LastPrintable
                /\ At(bytes, i + 1) = 0
             THEN utf16LePattern + 1 ELSE utf16LePattern)

\* A choice that tries the alternating-zero pattern before the byte order
\* marks.
chooseDecoder_patternFirst(bytes) ==
    IF PatternLoop(bytes, 0, 0) > PatternThreshold THEN "utf-16le"
    ELSE IF StartsWith(bytes, 255, 254) THEN "utf-16le"
    ELSE IF StartsWith(bytes, 254, 255) THEN "utf-16be"
    ELSE "utf-8"

\* The label of the TextDecoder that reader.onload decodes the buffer with
chooseDecoder(bytes) ==
    IF StartsWith(bytes, 255, 254) THEN "utf-16le"
    ELSE IF StartsWith(bytes, 254, 255) THEN "utf-16be"
    ELSE IF PatternLoop(bytes, 0, 0) > PatternThreshold THEN "utf-16le"
    ELSE "utf-8"

(***************************************************************************)
(* Input files                                                             *)
(***************************************************************************)
MaxLines == 3       \* lines of a delimited file
MaxRows == 3        \* rows of a markup document
MaxLoads == 3       \* files loaded with success in a session

HeaderLine == <<"Symbol", "Type", "Volume", "Profit", "Commission", "Swap">>
HeaderLineNoProfit == <<"Symbol", "Type", "Volume", "Price", "Price", "Swap">>
LongLine(symbol) ==
    <<"1001", "2024.01.15 10:00:00", "buy", "0.1", symbol, "50", "", "",
      "2024.01.16 11:30:00", "50", "-2", "-1", "50">>
HeaderLineTypeLast == <<"Symbol", "Profit", "Volume", "Commission", "Swap", "Type">>
SevenCellLine == <<"EURUSD", "buy", "0.1", "50", "-2", "-1", "50">>

CSVLines ==
    { HeaderLine, HeaderLineNoProfit,
      <<"EURUSD", "buy", "0.1", "50", "-2", "-1">>,
      <<"", "sell", "0.1", "-30", "-2", "">>,
      <<"UNKNOWN", "Sell", "", "50", "", "-1">>,
      <<"EURUSD", "sell", "0.1", "50", "-2">>,
      <<"EURUSD", "buy", "50">>,
      LongLine("EURUSD"), LongLine(""),
      HeaderLineTypeLast, SevenCellLine,
      <<"EURUSD", "sell", "0.1", "50", "-2", "-30">>,
      << >> }

PositionsMarker == <<th("Positions")>>
OrdersMarker == <<th("Orders")>>
PositionsHeader ==
    <<td("Time"), td("Position"), td("Symbol"), td("Type"), td("Volume"), td("Price"),
      td("S / L"), td("T / P"), td("Time"), td("Price"), td("Commission"), td("Swap"),
      td("Profit")>>
PositionRow(symbol, type) ==
    <<td("2024.01.15 10:00:00"), td("1001"), td(symbol), td(type), td("0.1"), td("50"),
      td(""), td(""), td("2024.01.16 11:30:00"), td("50"), td("-2"), td("-1"), td("50")>>
PositionRowPadded(symbol, type) ==
    <<td("2024.01.16 11:30:00"), td("1002"), td(symbol), td(type),
      Cell("td", "hidden", "50"), td("0.1"), td("50"), td(""), td(""),
      td("2024.01.16 11:30:00"), Cell("td", "hidden", ""), td("50"), td(""), td(""),
      td("1 250")>>
TableHeader ==
    <<th("Symbol"), th("Type"), th("Volume"), th("Profit"), th("Commission"), th("Swap")>>

HTMLRows ==
    { PositionsMarker, OrdersMarker, PositionsHeader,
      PositionRow("EURUSD", "buy"), PositionRowPadded("EURUSD", "Sell"),
      PositionRow("", "buy"), PositionRowPadded("UNKNOWN", "sell"),
      PositionRow("", "balance"),
      TableHeader,
      <<td("EURUSD"), td("buy"), td("0.1"), td("50"), td("-2"), td("-1")>>,
      <<td(""), td("sell"), td("0.1"), td("-30"), td(""), td("")>>,
      <<td("Balance"), td(""), td(""), td("50")>>,
      <<td("EURUSD"), td("sell"), td("-30")>> }

Document(currency, account, name, tables) ==
    [currency |-> currency, account |-> account, name |-> name, tables |-> tables]

TextContent(lines) == [lines |-> lines]

File(name, readable, content) ==
    [name |-> name, readable |-> readable, content |-> content]

\* The rows as one table, or with the first row in a table of its own.
OneTable(rows) == IF rows = << >> THEN << >> ELSE <<rows>>
SplitTables(rows) == <<SubSeq(rows, 1, 1), SubSeq(rows, 2, Len(rows))>>

(***************************************************************************)
(* CalendarManager.  prevListeners and nextListeners are the listeners it  *)
(* has added to the click event of the prevMonth and nextMonth buttons,    *)
(* each the direction its arrow function passes to navigateMonth.  The     *)
(* daily totals are computed from trades whenever they are read and are    *)
(* not kept.                                                               *)
(***************************************************************************)
\* new Date() when the manager is constructed: the month (0-based) and year
StartMonth == 10
StartYear == 2026

\* new CalendarManager()
NewCalendarManager ==
    [currentMonth |-> StartMonth, currentYear |-> StartYear, trades |-> << >>,
     prevListeners |-> << >>, nextListeners |-> << >>]

\* setupEventListeners: addEventListener with a new arrow function on each
\* button (both buttons are part of the page)
setupEventListeners(this) ==
    [this EXCEPT !.prevListeners = Append(this.prevListeners, -1),
                 !.nextListeners = Append(this.nextListeners, 1)]

\* initialize(trades)
initialize(this, trades) == setupEventListeners([this EXCEPT !.trades = trades])

navigateMonth(this, direction) ==
    LET month == this.currentMonth + direction
    IN  IF month < 0
        THEN [this EXCEPT !.currentMonth = 11, !.currentYear = this.currentYear - 1]
        ELSE IF month > 11
        THEN [this EXCEPT !.currentMonth = 0, !.currentYear = this.currentYear + 1]
        ELSE [this EXCEPT !.currentMonth = month]

\* A click on a button: its listeners run one after another, in the order
\* in which they were added.
RECURSIVE DispatchClick(_, _)
DispatchClick(this, listeners) ==
    IF listeners = << >> THEN this
    ELSE DispatchClick(navigateMonth(this, Head(listeners)), Tail(listeners))

(***************************************************************************)
(* The application controller                                              *)
(***************************************************************************)
EmptyTrades == [ok |-> TRUE, trades |-> << >>, meta |-> FALSE]
Idle == [phase |-> "idle"]
Reading(file) == [phase |-> "reading", file |-> file]

\* The accountInfo a result shows to whoever holds it: the result carries
\* the parser's object, so this is what that object holds now.
AccountInfoOf(result, this) ==
    IF result.ok /\ result.meta THEN this.accountInfo ELSE EmptyObject

\* A returned outcome as its caller sees it at the time of the return.
Returned(file, outcome) ==
    [file |-> file,
     result |-> outcome.result,
     accountInfoThen |-> AccountInfoOf(outcome.result, outcome.parser)]

HistoryLength == 2

Remember(history, entry) ==
    IF Len(history) < HistoryLength THEN Append(history, entry)
    ELSE Append(Tail(history), entry)

InitApp ==
    /\ parser = NewTradeParser
    /\ currentTrades = EmptyTrades
    /\ currentCurrency = "USD"
    /\ dashboardShown = FALSE
    /\ call = Idle
    /\ returned = << >>
    /\ input = << >>
    /\ calc = NoCalculator
    /\ stats = NoStats
    /\ passes = NoPasses
    /\ calendar = NewCalendarManager

\* processFile(file) up to its await: parseFile calls readFileContent, which
\* starts a FileReader on the file.
ProcessFile(file) ==
    /\ call = Idle
    /\ call' = Reading(file)
    /\ UNCHANGED <<parser, currentTrades, currentCurrency, dashboardShown, returned,
                   input, calc, stats, passes, calendar>>

\* What the reader's onload or onerror for the file brings about: the rest of
\* parseFile and of processFile, displayDashboard included.
Settled(file) ==
    /\ LET outcome == AfterRead(parser, file)
           result == outcome.result
       IN  /\ parser' = outcome.parser
           /\ returned' = Remember(returned, Returned(file, outcome))
           /\ IF result.ok
              THEN /\ currentTrades' = result
                   /\ currentCurrency' =
                          IF result.meta THEN result.currency ELSE outcome.parser.currency
                   /\ input' = result.trades
                   /\ calc' = NewStatsCalculator(result.trades)
                   /\ stats' = calculateAll(NewStatsCalculator(result.trades))
                   /\ passes' = StreakPasses(NewStatsCalculator(result.trades))
                   /\ calendar' = initialize(calendar, result.trades)
                   /\ dashboardShown' = TRUE
              ELSE UNCHANGED <<currentTrades, currentCurrency, input, calc, stats,
                               passes, dashboardShown, calendar>>

\* The reader's onload or onerror of the one call under way.
ReadSettled ==
    /\ call.phase = "reading"
    /\ Settled(call.file)
    /\ call' = Idle

\* resetDashboard()
ResetDashboard ==
    /\ dashboardShown
    /\ currentTrades' = EmptyTrades
    /\ dashboardShown' = FALSE
    /\ UNCHANGED <<parser, currentCurrency, call, returned, input, calc, stats, passes,
                   calendar>>

\* One file of any content within the bounds, processed by a new parser.
ProcessDelimited ==
    /\ call = Idle /\ returned = << >>
    /\ \E n \in 0 .. MaxLines : \E lines \in [1 .. n -> CSVLines] :
           ProcessFile(File("trades.csv", TRUE, TextContent(lines)))

ProcessMarkup ==
    /\ call = Idle /\ returned = << >>
    /\ \E name \in {"report.html", "report.htm"}, currency \in {"", "gbp"} :
       \E n \in 0 .. MaxRows : \E rows \in [1 .. n -> HTMLRows] :
       \E tables \in {OneTable(rows)} \cup (IF n >= 2 THEN {SplitTables(rows)} ELSE {}) :
           ProcessFile(File(name, TRUE, Document(currency, "", "", tables)))

NextParse == ProcessDelimited \/ ProcessMarkup \/ ReadSettled

SpecParse == InitApp /\ [][NextParse]_vars

\* One markup report made of rows that the wide enumeration above leaves
\* out: a Positions row with a blank Volume cell, header rows that resolve
\* other fields than symbol and profit, a header row with the Type column
\* last and a row too short to reach it.
PositionRowBlankVolume ==
    <<td("2024.01.15 10:00:00"), td("1001"), td("EURUSD"), td("buy"), td(""), td("50"),
      td(""), td(""), td("2024.01.16 11:30:00"), td("50"), td("-2"), td("-1"), td("50")>>
HeaderNoSymbol == <<th("Type"), th("Volume"), th("Commission"), th("Swap")>>
HeaderTwoFields == <<th("Symbol"), th("Profit"), th(""), th("")>>
HeaderTypeLast ==
    <<th("Symbol"), th("Profit"), th("Volume"), th("Commission"), th("Swap"), th("Type")>>
ShortTableRow == <<td("EURUSD"), td("50"), td("0.1"), td("-2"), td("-1")>>

TableRows ==
    { PositionsMarker, PositionsHeader, PositionRowBlankVolume,
      HeaderNoSymbol, HeaderTwoFields, HeaderTypeLast, ShortTableRow,
      <<td("EURUSD"), td("buy"), td("0.1"), td("50"), td("-2"), td("-1")>>,
      <<td("EURUSD"), td("50"), td("0.1"), td("-2"), td("-1"), td("sell")>> }

ProcessTables ==
    /\ call = Idle /\ returned = << >>
    /\ \E n \in 0 .. MaxRows : \E rows \in [1 .. n -> TableRows] :
           ProcessFile(File("report.html", TRUE, Document("", "", "", OneTable(rows))))

\* One delimited file whose header has the Type column last, with rows that
\* reach that column and a row that does not.
MaxShortLines == 4      \* lines of such a file

ShortLines ==
    { HeaderLineTypeLast,
      <<"EURUSD", "sell", "0.1", "50", "-2">>,
      <<"EURUSD", "buy", "0.1", "50", "-2", "-1">>,
      <<"EURUSD", "50", "0.1", "-2", "-1", "sell">> }

ProcessLines ==
    /\ call = Idle /\ returned = << >>
    /\ \E n \in 0 .. MaxShortLines : \E lines \in [1 .. n -> ShortLines] :
           ProcessFile(File("trades.csv", TRUE, TextContent(lines)))

NextTables == ProcessTables \/ ProcessLines \/ ReadSettled

SpecTables == InitApp /\ [][NextTables]_vars

\* One delimited file of the 13 broker-standard columns, header and row
\* permuted alike.
StandardHeader ==
    <<"Ticket", "Open Time", "Type", "Size", "Symbol", "Open Price", "S/L", "T/P",
      "Close Time", "Close Price", "Commission", "Swap", "Profit">>
StandardRow(symbol, type) ==
    <<"1001", "2024.01.15 10:00:00", type, "0.1", symbol, "1250", "", "",
      "2024.01.16 11:30:00", "50", "-2", "-1", "-30">>
StandardRows ==
    { StandardRow("EURUSD", "sell"), StandardRow("EURUSD", "buy"), StandardRow("", "buy") }

Columns == 1 .. Len(StandardHeader)
Transpose(i, j) == [k \in Columns |-> IF k = i THEN j ELSE IF k = j THEN i ELSE k]
Rotate(r) == [k \in Columns |-> ((k - 1 + r) % Len(StandardHeader)) + 1]
ColumnOrders ==
    { [k \in Columns |-> Rotate(r)[Transpose(i, j)[k]]] :
          r \in 0 .. Len(StandardHeader) - 1, i \in Columns, j \in Columns }
Permuted(cells, p) == [k \in Columns |-> cells[p[k]]]

ProcessPermuted ==
    /\ call = Idle /\ returned = << >>
    /\ \E p \in ColumnOrders, row \in StandardRows :
           ProcessFile(File("trades.csv", TRUE,
                            TextContent(<<Permuted(StandardHeader, p), Permuted(row, p)>>)))

NextPermuted == ProcessPermuted \/ ReadSettled

SpecPermuted == InitApp /\ [][NextPermuted]_vars

\* One report whose Positions section has a single data row, with hidden
\* cells put in front of it, after its second cell and behind it.
MaxHidden == 3      \* hidden cells in a row

HiddenTexts == {"", "Time", "Position", "Symbol"}
Slots == {"front", "middle", "end"}
HiddenAt(padding, slot) ==
    LET there == SelectSeq(padding, LAMBDA h : h.slot = slot)
    IN  [k \in 1 .. Len(there) |-> Cell("td", "hidden", there[k].text)]
PaddedRow(row, padding) ==
    HiddenAt(padding, "front") \o SubSeq(row, 1, 2) \o HiddenAt(padding, "middle")
        \o SubSeq(row, 3, Len(row)) \o HiddenAt(padding, "end")
DataRows ==
    { PositionRow("EURUSD", "buy"), PositionRow("EURUSD", "Sell"),
      PositionRow("", "balance"),
      <<td("EURUSD"), td("sell"), td("0.1"), td("-30")>> }

ProcessPadded ==
    /\ call = Idle /\ returned = << >>
    /\ \E row \in DataRows : \E n \in 0 .. MaxHidden :
       \E padding \in [1 .. n -> [slot : Slots, text : HiddenTexts]] :
           ProcessFile(File("report.html", TRUE,
                            Document("", "", "",
                                     <<<<PositionsMarker, PositionsHeader,
                                         PaddedRow(row, padding)>>>>)))

NextPadded == ProcessPadded \/ ReadSettled

SpecPadded == InitApp /\ [][NextPadded]_vars

\* Reading one markup file: a buffer made of a head and two runs of equal
\* byte pairs, with or without an odd byte at its end.
Heads == { << >>, <<255, 254>>, <<254, 255>>, <<255>>, <<254, 254>> }
Pairs ==
    { <<65, 0>>, <<32, 0>>, <<126, 0>>, <<31, 0>>, <<127, 0>>, <<0, 65>>, <<65, 65>> }
RunLengths == {0, 1, 20, 21, 50}
Ends == { << >>, <<65>> }

RECURSIVE Run(_, _)
Run(pair, n) == IF n = 0 THEN << >> ELSE pair \o Run(pair, n - 1)

Buffers ==
    { head \o Run(p1, n1) \o Run(p2, n2) \o end :
          head \in Heads, p1 \in Pairs, n1 \in RunLengths,
          p2 \in Pairs, n2 \in RunLengths, end \in Ends }

\* readFileContent(file) for an .html name: reader.readAsArrayBuffer(file)
ReadAsArrayBuffer ==
    /\ call = Idle
    /\ \E bytes \in Buffers : call' = [phase |-> "readingBuffer", bytes |-> bytes]
    /\ UNCHANGED <<parser, currentTrades, currentCurrency, dashboardShown, returned,
                   input, calc, stats, passes, calendar>>

\* reader.onload: the decoder is chosen and the promise resolved
ReaderOnLoad ==
    /\ call.phase = "readingBuffer"
    /\ call' = [phase |-> "resolved", bytes |-> call.bytes,
                decoder |-> chooseDecoder(call.bytes)]
    /\ UNCHANGED <<parser, currentTrades, currentCurrency, dashboardShown, returned,
                   input, calc, stats, passes, calendar>>

NextDecode == ReadAsArrayBuffer \/ ReaderOnLoad

SpecDecode == InitApp /\ [][NextDecode]_vars

(***************************************************************************)
(* Named-column inference on its own: a header row of up to MaxHeaderCells *)
(* cells, with cells that match the same field more than once, walked one  *)
(* column at a time by detectCSVColumns or by detectHTMLColumns.           *)
(***************************************************************************)
MaxHeaderCells == 4

HeaderTexts ==
    {"Symbol", "Profit", "Volume", "Size", "Ticket", "Close Time", "Time", "EURUSD"}

InitDetect ==
    /\ parser = NewTradeParser
    /\ currentTrades = EmptyTrades
    /\ currentCurrency = "USD"
    /\ dashboardShown = FALSE
    /\ call = Idle
    /\ returned = << >>
    /\ \E n \in 0 .. MaxHeaderCells : input \in [1 .. n -> HeaderTexts]
    /\ calc = NoCalculator
    /\ stats = NoStats
    /\ passes = NoPasses
    /\ calendar = NewCalendarManager

Detecting(kind, columns, index, map) ==
    [phase |-> "detecting", kind |-> kind, columns |-> columns, index |-> index,
     map |-> map]

\* detectCSVColumns(header) as parseCSV calls it, on the lower-cased first
\* line, up to the forEach.
DetectCSVColumns ==
    /\ call = Idle
    /\ call' = Detecting("csv", LowerCells(input), 0, EmptyObject)
    /\ UNCHANGED <<parser, currentTrades, currentCurrency, dashboardShown, returned,
                   input, calc, stats, passes, calendar>>

\* detectHTMLColumns(values) as parseHTMLTable calls it, on the cell texts
\* of the first row.
DetectHTMLColumns ==
    /\ call = Idle
    /\ call' = Detecting("html", input, 0, EmptyObject)
    /\ UNCHANGED <<parser, currentTrades, currentCurrency, dashboardShown, returned,
                   input, calc, stats, passes, calendar>>

\* One column of the forEach.
DetectColumn ==
    /\ call.phase = "detecting"
    /\ call.index < Len(call.columns)
    /\ call' = [call EXCEPT
                   !.index = call.index + 1,
                   !.map = IF call.kind = "csv"
                           THEN DetectCSVBody(call.map, At(call.columns, call.index),
                                              call.index)
                           ELSE DetectHTMLBody(call.map, At(call.columns, call.index),
                                               call.index)]
    /\ UNCHANGED <<parser, currentTrades, currentCurrency, dashboardShown, returned,
                   input, calc, stats, passes, calendar>>

\* The return after the last column: the map, or null.
DetectReturn ==
    /\ call.phase = "detecting"
    /\ call.index >= Len(call.columns)
    /\ call' = [phase |-> "detected", kind |-> call.kind, columns |-> call.columns,
                map |-> call.map,
                result |-> IF call.kind = "csv" THEN detectCSVColumns(call.columns)
                           ELSE detectHTMLColumns(call.columns)]
    /\ UNCHANGED <<parser, currentTrades, currentCurrency, dashboardShown, returned,
                   input, calc, stats, passes, calendar>>

NextDetect == DetectCSVColumns \/ DetectHTMLColumns \/ DetectColumn \/ DetectReturn

SpecDetect == InitDetect /\ [][NextDetect]_vars

\* One report made of section markers, column-header rows and data rows of
\* the Positions section, in any order: sections that open, close and open
\* again, with and without a column-header row of their own.
MaxSectionRows == 5

DealsThenPositions == <<th("Deals"), th("Positions")>>

SectionRows ==
    { PositionsMarker, OrdersMarker, DealsThenPositions, PositionsHeader,
      PositionRow("EURUSD", "buy") }

ProcessSections ==
    /\ call = Idle /\ returned = << >>
    /\ \E n \in 0 .. MaxSectionRows : \E rows \in [1 .. n -> SectionRows] :
           ProcessFile(File("report.html", TRUE, Document("", "", "", OneTable(rows))))

NextSections == ProcessSections \/ ReadSettled

SpecSections == InitApp /\ [][NextSections]_vars

(***************************************************************************)
(* parseCSVLine on its own: any line of up to MaxChars characters.         *)
(***************************************************************************)
MaxChars == 5

Characters == {"a", " ", ",", ";", Tab, Quote}

InitLine ==
    /\ parser = NewTradeParser
    /\ currentTrades = EmptyTrades
    /\ currentCurrency = "USD"
    /\ dashboardShown = FALSE
    /\ call = Idle
    /\ returned = << >>
    /\ \E n \in 0 .. MaxChars : input \in [1 .. n -> Characters]
    /\ calc = NoCalculator
    /\ stats = NoStats
    /\ passes = NoPasses
    /\ calendar = NewCalendarManager

\* this.parseCSVLine(line)
ParseCSVLine ==
    /\ call = Idle
    /\ call' = [phase |-> "split", values |-> parseCSVLine(input)]
    /\ UNCHANGED <<parser, currentTrades, currentCurrency, dashboardShown, returned,
                   input, calc, stats, passes, calendar>>

NextLine == ParseCSVLine

SpecLine == InitLine /\ [][NextLine]_vars

\* A session: files dropped one after another on the same parser.
PositionsTables(symbol) ==
    <<<<PositionsMarker, PositionsHeader, PositionRow(symbol, "buy")>>>>

SessionFiles ==
    { File("notes.txt", TRUE, TextContent(<<HeaderLine>>)),
      File("notes.txt", FALSE, TextContent(<<HeaderLine>>)),
      File("trades.csv", TRUE,
           TextContent(<<HeaderLine, <<"EURUSD", "buy", "0.1", "50", "-2", "-1">>>>)),
      File("trades.csv", FALSE, TextContent(<<HeaderLine>>)),
      File("TRADES.CSV", TRUE,
           TextContent(<<HeaderLine, <<"", "sell", "0.1", "-30", "-2", "">>>>)),
      File("report.html", TRUE, Document("gbp", "111", "Ann", PositionsTables("EURUSD"))),
      File("report.html", TRUE, Document("", "222", "", PositionsTables("EURUSD"))),
      File("report.htm", TRUE,
           Document("EUR", "", "",
                    <<<<TableHeader,
                        <<td("EURUSD"), td("buy"), td("0.1"), td("50"), td("-2"), td("-1")>>>>>>)),
      File("report.html", TRUE, Document("JPY", "333", "Bob", <<<<PositionsMarker>>>>)) }

Next ==
    \/ /\ Len(calendar.nextListeners) < MaxLoads
       /\ \E file \in SessionFiles : ProcessFile(file)
    \/ ReadSettled
    \/ ResetDashboard

Spec == InitApp /\ [][Next]_vars

(***************************************************************************)
(* The calendar in a session: files loaded, the dashboard closed and       *)
(* opened again, and clicks on the two navigation buttons while the        *)
(* dashboard is shown.                                                     *)
(***************************************************************************)
MaxYears == 1       \* clicks are followed this many years around StartYear

CalendarFiles ==
    { File("trades.csv", TRUE,
           TextContent(<<HeaderLine, <<"EURUSD", "buy", "0.1", "50", "-2", "-1">>>>)),
      File("report.html", TRUE, Document("gbp", "111", "Ann", PositionsTables("EURUSD"))),
      File("notes.txt", TRUE, TextContent(<<HeaderLine>>)) }

LoadFile ==
    /\ ~dashboardShown
    /\ Len(calendar.nextListeners) < MaxLoads
    /\ \E file \in CalendarFiles : ProcessFile(file)

\* A click on the nextMonth button
ClickNextMonth ==
    /\ dashboardShown
    /\ Abs(calendar.currentYear - StartYear) <= MaxYears
    /\ calendar' = DispatchClick(calendar, calendar.nextListeners)
    /\ UNCHANGED <<parser, currentTrades, currentCurrency, dashboardShown, call, returned,
                   input, calc, stats, passes>>

\* A click on the prevMonth button
ClickPrevMonth ==
    /\ dashboardShown
    /\ Abs(calendar.currentYear - StartYear) <= MaxYears
    /\ calendar' = DispatchClick(calendar, calendar.prevListeners)
    /\ UNCHANGED <<parser, currentTrades, currentCurrency, dashboardShown, call, returned,
                   input, calc, stats, passes>>

NextCalendar ==
    \/ LoadFile
    \/ ReadSettled
    \/ ResetDashboard
    \/ ClickNextMonth
    \/ ClickPrevMonth

SpecCalendar == InitApp /\ [][NextCalendar]_vars

(***************************************************************************)
(* Two submissions that overlap: a second file is dropped or selected      *)
(* while the first call waits for its FileReader.  Nothing in processFile  *)
(* or in the handlers holds the second call back, and the two readers      *)
(* settle in either order.                                                 *)
(***************************************************************************)
Overlapped(files, pending, settled) ==
    [phase |-> "overlapped", files |-> files, pending |-> pending, settled |-> settled]

\* The drop handler or handleFileSelect with the first file
SubmitFirst ==
    /\ call = Idle /\ returned = << >>
    /\ \E file \in SessionFiles : ProcessFile(file)

\* The drop handler or handleFileSelect again, before the first read settled
SubmitSecond ==
    /\ call.phase = "reading"
    /\ \E file \in SessionFiles :
           call' = Overlapped(<<call.file, file>>, {1, 2}, << >>)
    /\ UNCHANGED <<parser, currentTrades, currentCurrency, dashboardShown, returned,
                   input, calc, stats, passes, calendar>>

\* The onload or onerror of one of the two readers
OverlappedReadSettled ==
    /\ call.phase = "overlapped"
    /\ \E i \in call.pending :
           /\ Settled(call.files[i])
           /\ call' = Overlapped(call.files, call.pending \ {i}, Append(call.settled, i))

NextOverlap == SubmitFirst \/ SubmitSecond \/ OverlappedReadSettled

SpecOverlap == InitApp /\ [][NextOverlap]_vars

(***************************************************************************)
(* The calculator on its own: any Trade collection within the bounds.      *)
(***************************************************************************)
Profits == (-MaxProfit) .. MaxProfit

\* With a netProfit the gross profit is one unit higher (a commission of
\* -1), so that net and gross never coincide; without it only the gross
\* profit is there.
TradeShapes ==
    { [closeTime |-> ct, profit |-> n + 1, netProfit |-> n] :
          ct \in 1 .. MaxTime, n \in Profits }
    \cup { [closeTime |-> ct, profit |-> p] : ct \in 1 .. MaxTime, p \in -1 .. 1 }

WithTicket(shape, i) ==
    IF HasNetProfit(shape)
    THEN [ticket |-> i, closeTime |-> shape.closeTime, profit |-> shape.profit,
          netProfit |-> shape.netProfit]
    ELSE [ticket |-> i, closeTime |-> shape.closeTime, profit |-> shape.profit]

InitStats ==
    /\ parser = NewTradeParser
    /\ currentTrades = EmptyTrades
    /\ currentCurrency = "USD"
    /\ dashboardShown = FALSE
    /\ call = Idle
    /\ returned = << >>
    /\ \E n \in 0 .. MaxTrades : \E f \in [1 .. n -> TradeShapes] :
           input = [i \in 1 .. n |-> WithTicket(f[i], i)]
    /\ calc = NoCalculator
    /\ stats = NoStats
    /\ passes = NoPasses
    /\ calendar = NewCalendarManager

\* new StatsCalculator(trades).  The caller's array and this.trades are one
\* array, so the caller's collection holds afterwards what this.trades holds.
Construct ==
    /\ ~calc.ready
    /\ calc' = NewStatsCalculator(input)
    /\ input' = calc'.trades
    /\ UNCHANGED <<stats, passes>>
    /\ UNCHANGED appVars

\* statsCalculator.calculateAll(): no method it calls assigns to this or to
\* a trade, or sorts this.trades.
CalculateAll ==
    /\ calc.ready
    /\ stats' = calculateAll(calc)
    /\ passes' = StreakPasses(calc)
    /\ input' = calc.trades
    /\ UNCHANGED calc
    /\ UNCHANGED appVars

NextStats == Construct \/ CalculateAll

SpecStats == InitStats /\ [][NextStats]_vars

(***************************************************************************)
(* Properties of the statistics engine                                     *)
(***************************************************************************)

\* What the properties call a trade's net profit: its netProfit, and its
\* gross profit only when it has none.
NetOf(trade) == IF "netProfit" \in DOMAIN trade THEN trade.netProfit ELSE trade.profit

RECURSIVE NetSum(_, _)
NetSum(ts, n) == IF n = 0 THEN 0 ELSE NetSum(ts, n - 1) + NetOf(ts[n])

IsAscending(ts) ==
    \A i \in 1 .. Len(ts), j \in 1 .. Len(ts) :
        i < j => ts[i].closeTime <= ts[j].closeTime

\* C4: getEquityCurve returns exactly one point per trade, and the equity of
\* point i is the sum of the net profits of the first i trades in ascending
\* closeTime order (gross profit only for a trade without netProfit).
C4_EquityCurveIsRunningSum ==
    stats.ready =>
        /\ Len(stats.equityCurve) = Len(input)
        /\ IsAscending(calc.sortedTrades)
        /\ \A i \in 1 .. Len(stats.equityCurve) :
               /\ stats.equityCurve[i].trade = calc.sortedTrades[i]
               /\ stats.equityCurve[i].equity = NetSum(calc.sortedTrades, i)

\* C4 witness: a curve of a collection given out of order, with one trade
\* that has a netProfit and one that has only a gross profit.
C4_Witness ==
    /\ stats.ready
    /\ Len(stats.equityCurve) >= 2
    /\ calc.sortedTrades # input
    /\ \E i \in 1 .. Len(input) : "netProfit" \in DOMAIN input[i]
    /\ \E i \in 1 .. Len(input) :
           "netProfit" \notin DOMAIN input[i] /\ input[i].profit # 0

NonDecreasing(curve) ==
    \A i \in 1 .. Len(curve) - 1 : curve[i].equity <= curve[i + 1].equity

\* C5: getMaxDrawdown is >= 0, and it is 0 if and only if the equity curve
\* is non-decreasing throughout.
C5_DrawdownZeroIffNonDecreasing ==
    stats.ready =>
        /\ stats.maxDrawdown >= 0
        /\ (stats.maxDrawdown = 0) <=> NonDecreasing(stats.equityCurve)

\* C5 witness: a non-decreasing curve that starts below zero and rises, with
\* a drawdown of 0.
C5_Witness ==
    /\ stats.ready
    /\ Len(stats.equityCurve) >= 2
    /\ stats.equityCurve[1].equity < 0
    /\ stats.equityCurve[1].equity < stats.equityCurve[2].equity
    /\ stats.maxDrawdown = 0

\* C6: after every trade of the chronologically sorted collection at most
\* one of the two current-streak counters is non-zero, and after a breakeven
\* trade both are 0.
C6_StreaksExclusive ==
    stats.ready =>
        /\ Len(passes.win) = Len(calc.sortedTrades)
        /\ Len(passes.lose) = Len(calc.sortedTrades)
        /\ \A i \in 1 .. Len(calc.sortedTrades) :
               /\ ~(passes.win[i].currentStreak > 0 /\ passes.lose[i].currentStreak > 0)
               /\ NetOf(calc.sortedTrades[i]) = 0 =>
                      /\ passes.win[i].currentStreak = 0
                      /\ passes.lose[i].currentStreak = 0

\* C6 witness: a breakeven trade that comes right after a losing trade, so
\* that it resets a running lose streak.
C6_Witness ==
    /\ stats.ready
    /\ \E i \in 2 .. Len(calc.sortedTrades) :
           /\ NetOf(calc.sortedTrades[i]) = 0
           /\ passes.lose[i - 1].currentStreak > 0
           /\ passes.lose[i].currentStreak = 0

CountWins == Cardinality({ i \in 1 .. Len(input) : NetOf(input[i]) > 0 })
CountLosses == Cardinality({ i \in 1 .. Len(input) : NetOf(input[i]) < 0 })

SentinelRule(value) ==
    /\ value.inf <=> (CountWins >= 1 /\ CountLosses = 0)
    /\ (CountWins = 0 /\ CountLosses = 0) => value = Zero
    /\ ~value.inf => value.den # 0

\* C7: getProfitFactor and getRiskRewardRatio return Infinity exactly when
\* there is a winning trade and no losing trade, 0 when there is neither a
\* winning nor a losing trade, and otherwise a finite quotient whose
\* divisor is not zero.
C7_RatioSentinels ==
    stats.ready =>
        /\ SentinelRule(stats.profitFactor)
        /\ SentinelRule(stats.riskRewardRatio)

\* C7 witness: wins and a breakeven trade but no loss, reported as Infinity
\* by both ratios.
C7_Witness ==
    /\ stats.ready
    /\ stats.profitFactor.inf
    /\ stats.riskRewardRatio.inf
    /\ stats.breakEvenTrades >= 1

\* C8: sortedTrades is a permutation of the input collection in ascending
\* closeTime order in which trades with equal closeTime keep their relative
\* input order (the ticket of a trade is its position in the input).
C8_SortedStablePermutation ==
    calc.ready =>
        /\ Len(calc.sortedTrades) = Len(input)
        /\ \A i \in 1 .. Len(input) :
               Cardinality({ k \in 1 .. Len(input) : calc.sortedTrades[k] = input[i] }) = 1
        /\ IsAscending(calc.sortedTrades)
        /\ \A i \in 1 .. Len(input), j \in 1 .. Len(input) :
               (i < j /\ calc.sortedTrades[i].closeTime = calc.sortedTrades[j].closeTime)
                   => calc.sortedTrades[i].ticket < calc.sortedTrades[j].ticket

\* C8 witness: a collection that the sort reorders and that holds two trades
\* with the same closeTime.
C8_Witness ==
    /\ calc.ready
    /\ calc.sortedTrades # input
    /\ \E i \in 1 .. Len(input), j \in 1 .. Len(input) :
           i < j /\ input[i].closeTime = input[j].closeTime

(***************************************************************************)
(* Properties of the parser and of the application                         *)
(***************************************************************************)
NameOf(entry) == toLowerCase(entry.file.name)
IsDelimited(entry) == EndsWith(NameOf(entry), ".csv")
IsMarkup(entry) == EndsWith(NameOf(entry), ".html") \/ EndsWith(NameOf(entry), ".htm")
Supported(name) ==
    \/ EndsWith(toLowerCase(name), ".csv")
    \/ EndsWith(toLowerCase(name), ".html")
    \/ EndsWith(toLowerCase(name), ".htm")

NonBlankLines(entry) ==
    Cardinality({ i \in 1 .. Len(entry.file.content.lines) :
                      entry.file.content.lines[i] # << >> })

\* The files whose extraction and normalization ran: read without error, and
\* markup or delimited text of at least two non-empty lines.
Extracted(entry) ==
    /\ entry.file.readable
    /\ \/ IsMarkup(entry)
       \/ IsDelimited(entry) /\ NonBlankLines(entry) >= 2

\* C1: parseFile never succeeds with an empty Trade collection: when
\* extraction and normalization of a .csv, .html or .htm input recover no
\* valid trade, the call fails with the 'No valid trades found' error.
C1_NoEmptySuccess ==
    \A i \in 1 .. Len(returned) :
        LET entry == returned[i]
        IN  /\ entry.result.ok => Len(entry.result.trades) > 0
            /\ (Extracted(entry) /\ ~entry.result.ok) =>
                   entry.result.error =
                       (IF IsDelimited(entry) THEN ErrNoTradesCSV ELSE ErrNoTradesHTML)

\* C1 witness: a delimited file with a header line and a data row of enough
\* cells whose symbol is empty, rejected with the no-trades error.
C1_Witness ==
    \E i \in 1 .. Len(returned) :
        /\ IsDelimited(returned[i])
        /\ Extracted(returned[i])
        /\ \E k \in 2 .. Len(returned[i].file.content.lines) :
               Len(returned[i].file.content.lines[k]) >= 5
        /\ ~returned[i].result.ok
        /\ returned[i].result.error = ErrNoTradesCSV

\* C2: a file whose name ends in none of .csv, .html, .htm is rejected with
\* the unsupported-format error before any read of it is started, whatever
\* the read would have produced.
C2_UnsupportedBeforeRead ==
    /\ call.phase = "reading" => Supported(call.file.name)
    /\ \A i \in 1 .. Len(returned) :
           ~Supported(returned[i].file.name) =>
               returned[i].result = Failure(ErrUnsupported)

\* C3: every Trade returned by any parser path has
\* netProfit = profit + commission + swap.
C3_NetProfitIsSum ==
    \A i \in 1 .. Len(returned) :
        returned[i].result.ok =>
            \A k \in 1 .. Len(returned[i].result.trades) :
                LET trade == returned[i].result.trades[k]
                IN  trade.netProfit = trade.profit + trade.commission + trade.swap

\* C3 witness: a trade of the Positions section with a commission and a swap
\* that make its net profit differ from its gross profit.
C3_Witness ==
    \E i \in 1 .. Len(returned) :
        /\ returned[i].result.ok
        /\ \E k \in 1 .. Len(returned[i].result.trades) :
               LET trade == returned[i].result.trades[k]
               IN  /\ "sl" \in DOMAIN trade
                   /\ trade.commission # 0 /\ trade.swap # 0
                   /\ trade.netProfit # trade.profit

\* What a new parser returns for a file, as its caller sees it.
FreshlyReturned(file) == Returned(file, AfterRead(NewTradeParser, file))

\* C9: parsing a file with a parser that has parsed other files before gives
\* the same trades, currency code and account metadata as parsing it with a
\* new parser, and the account metadata of a result already returned is not
\* changed by a later parse.
C9_NoSharedState ==
    \A i \in 1 .. Len(returned) :
        /\ returned[i] = FreshlyReturned(returned[i].file)
        /\ AccountInfoOf(returned[i].result, parser) = returned[i].accountInfoThen

\* C10: every Trade returned by any parse path has a symbol that is neither
\* empty nor 'UNKNOWN'.
C10_SymbolsValid ==
    \A i \in 1 .. Len(returned) :
        returned[i].result.ok =>
            \A k \in 1 .. Len(returned[i].result.trades) :
                /\ returned[i].result.trades[k].symbol # ""
                /\ returned[i].result.trades[k].symbol # "UNKNOWN"

\* C11: every Trade returned by any parse path has a strictly positive
\* volume; a blank or unparseable volume cell gives the minimal lot size
\* 0.01, never 0.
C11_VolumePositive ==
    \A i \in 1 .. Len(returned) :
        returned[i].result.ok =>
            \A k \in 1 .. Len(returned[i].result.trades) :
                returned[i].result.trades[k].volume > 0

NonBlank(lines) == SelectSeq(lines, LAMBDA line : line # << >>)
HasSymbolAndProfit(map) == "symbol" \in DOMAIN map /\ "profit" \in DOMAIN map

\* C12: named-column inference, on the header line of a delimited file and on
\* the header row that opens a markup table alike, returns a column map only
\* if both the symbol field and the profit field were resolved.
C12_MapNeedsSymbolAndProfit ==
    \A i \in 1 .. Len(returned) :
        LET entry == returned[i]
        IN  /\ (IsDelimited(entry) /\ Extracted(entry)) =>
                   LET map == detectCSVColumns(
                                  LowerCells(NonBlank(entry.file.content.lines)[1]))
                   IN  map # NoMap => HasSymbolAndProfit(map)
            /\ (IsMarkup(entry) /\ entry.file.readable
                    /\ parseMT5Report(entry.file.content) = << >>) =>
                   \A t \in 1 .. Len(entry.file.content.tables) :
                       LET rows == entry.file.content.tables[t]
                           values == Texts(SelectSeq(rows[1],
                                         LAMBDA c : ~ClassListContainsHidden(c)))
                           map == detectHTMLColumns(values)
                       IN  (Len(rows) >= MinTableRows /\ Len(rows[1]) >= MinTableCells
                                /\ isHeaderRow(values) /\ map # NoMap)
                               => HasSymbolAndProfit(map)

Headerless(entry) ==
    detectCSVColumns(LowerCells(NonBlank(entry.file.content.lines)[1])) = NoMap

\* C13: in the positional fallback for delimited text only a row of 13 cells
\* or of 6 cells yields a Trade; a row with any other number of cells
\* yields none.
C13_OnlyEnumeratedShapes ==
    \A i \in 1 .. Len(returned) :
        LET entry == returned[i]
            lines == entry.file.content.lines
        IN  (IsDelimited(entry) /\ Extracted(entry) /\ Headerless(entry)
                 /\ entry.result.ok) =>
                Len(entry.result.trades) <=
                    Cardinality({ k \in 1 .. Len(lines) : Len(lines[k]) \in {13, 6} })

\* The number a cell text denotes, for a text that is a number.
ValueOf(text) == parseFloat(text)[1]

\* A row [symbol, side, volume, openPrice, closePrice, profit] of well-formed
\* cells.
WellFormedShort(cells) ==
    /\ Len(cells) = 6
    /\ cells[1] \notin {"", "UNKNOWN"}
    /\ cells[2] \in {"buy", "sell"}
    /\ \A k \in 3 .. 6 : parseFloat(cells[k]) # NaN
    /\ ValueOf(cells[3]) > 0

AllShort(entry) ==
    /\ IsDelimited(entry) /\ Extracted(entry)
    /\ \A k \in 1 .. Len(entry.file.content.lines) :
           WellFormedShort(entry.file.content.lines[k])

\* C14: a headerless delimited row of exactly six cells [symbol, side,
\* volume, openPrice, closePrice, profit] becomes a Trade whose symbol, side,
\* volume, open price, close price and gross profit are the values of cells
\* 0..5, with commission = swap = 0 and netProfit equal to the gross profit.
C14_ShortRowFields ==
    \A i \in 1 .. Len(returned) :
        LET entry == returned[i]
            lines == entry.file.content.lines
        IN  AllShort(entry) =>
                /\ entry.result.ok
                /\ Len(entry.result.trades) = Len(lines)
                /\ \A k \in 1 .. Len(lines) :
                       LET trade == entry.result.trades[k]
                       IN  /\ trade.symbol = lines[k][1]
                           /\ trade.type = lines[k][2]
                           /\ trade.volume = ValueOf(lines[k][3])
                           /\ trade.openPrice = ValueOf(lines[k][4])
                           /\ trade.closePrice = ValueOf(lines[k][5])
                           /\ trade.profit = ValueOf(lines[k][6])
                           /\ trade.commission = 0 /\ trade.swap = 0
                           /\ trade.netProfit = trade.profit

\* C14 witness: a parsed file of six-cell rows, a buy and a sell among them.
C14_Witness ==
    \E i \in 1 .. Len(returned) :
        /\ AllShort(returned[i])
        /\ returned[i].result.ok
        /\ \E k \in 1 .. Len(returned[i].result.trades) :
               returned[i].result.trades[k].type = "sell"
        /\ \E k \in 1 .. Len(returned[i].result.trades) :
               /\ returned[i].result.trades[k].type = "buy"
               /\ returned[i].result.trades[k].profit = -100

\* The canonical field a broker-standard header cell names.
FieldOf(cell) ==
    CASE cell = "Ticket" -> "ticket"
      [] cell = "Open Time" -> "openTime"
      [] cell = "Type" -> "type"
      [] cell = "Size" -> "volume"
      [] cell = "Symbol" -> "symbol"
      [] cell = "Open Price" -> "openPrice"
      [] cell = "S/L" -> "sl"
      [] cell = "T/P" -> "tp"
      [] cell = "Close Time" -> "closeTime"
      [] cell = "Close Price" -> "closePrice"
      [] cell = "Commission" -> "commission"
      [] cell = "Swap" -> "swap"
      [] cell = "Profit" -> "profit"

IsPermutedStandard(entry) ==
    /\ IsDelimited(entry) /\ entry.file.readable
    /\ Len(entry.file.content.lines) = 2
    /\ Len(entry.file.content.lines[1]) = 13
    /\ Len(entry.file.content.lines[2]) = 13
    /\ \A j \in 1 .. 13 : \E k \in 1 .. 13 :
           entry.file.content.lines[1][k] = StandardHeader[j]

\* The line with its cells put back in the order of the standard header.
Unpermuted(header, line) ==
    [j \in 1 .. 13 |-> line[CHOOSE k \in 1 .. 13 : header[k] = StandardHeader[j]]]

\* C15: for a permutation of the 13 broker-standard header cells, named-column
\* inference maps each canonical field to the position of its own header
\* cell, and the data row permuted the same way gives the same Trade as the
\* unpermuted header and row.
C15_PermutedHeaderSameTrade ==
    \A i \in 1 .. Len(returned) :
        LET entry == returned[i]
            header == entry.file.content.lines[1]
            line == entry.file.content.lines[2]
            map == detectCSVColumns(LowerCells(header))
        IN  IsPermutedStandard(entry) =>
                /\ map # NoMap
                /\ \A k \in 1 .. 13 :
                       /\ FieldOf(header[k]) \in DOMAIN map
                       /\ map[FieldOf(header[k])] = k - 1
                /\ entry.result = parseCSV(<<StandardHeader, Unpermuted(header, line)>>)

\* C15 witness: a parsed file whose symbol and profit columns are not where
\* the standard order has them, and which gave a sell Trade.
C15_Witness ==
    \E i \in 1 .. Len(returned) :
        /\ IsPermutedStandard(returned[i])
        /\ returned[i].file.content.lines[1][5] # "Symbol"
        /\ returned[i].file.content.lines[1][13] # "Profit"
        /\ returned[i].result.ok
        /\ returned[i].result.trades[1].type = "sell"
        /\ returned[i].result.trades[1].netProfit = -3300

IsHiddenCell(cell) == cell.class = "hidden"
HasPositionsSection(doc) ==
    \E t \in 1 .. Len(doc.tables) : \E r \in 1 .. Len(doc.tables[t]) :
        \E c \in 1 .. Len(doc.tables[t][r]) :
            doc.tables[t][r][c].tag = "th" /\ doc.tables[t][r][c].text = "Positions"

\* The document with its hidden cells taken out of every row.
WithoutHidden(doc) ==
    [doc EXCEPT !.tables =
        [t \in 1 .. Len(doc.tables) |->
            [r \in 1 .. Len(doc.tables[t]) |->
                SelectSeq(doc.tables[t][r], LAMBDA c : ~IsHiddenCell(c))]]]

\* C16: in the MT5 Positions section a data row with hidden cells among its
\* visible cells gives the same outcome, the same Trade or the same
\* rejection, as the row with those hidden cells removed.
C16_HiddenCellsIgnored ==
    \A i \in 1 .. Len(returned) :
        LET entry == returned[i]
        IN  (IsMarkup(entry) /\ entry.file.readable
                 /\ HasPositionsSection(entry.file.content)) =>
                entry.result =
                    parseHTML(NewTradeParser, WithoutHidden(entry.file.content)).result

\* The even offsets i < min(100, length - 1) at which a printable ASCII byte
\* is followed by a zero byte (offsets count from 0).
PatternOffsets(bytes) ==
    { i \in 0 .. 99 :
          /\ i % 2 = 0
          /\ i < Len(bytes) - 1
          /\ bytes[i + 1] \in 32 .. 126
          /\ bytes[i + 2] = 0 }

\* C17: for markup input a buffer starting FF FE is decoded as UTF-16LE; else
\* one starting FE FF as UTF-16BE; else as UTF-16LE exactly when more than 20
\* of the sampled offsets hold a printable ASCII byte followed by a zero
\* byte; else as UTF-8.
C17_EncodingPriority ==
    call.phase = "resolved" =>
        call.decoder =
            (IF Len(call.bytes) >= 2 /\ call.bytes[1] = 255 /\ call.bytes[2] = 254
             THEN "utf-16le"
             ELSE IF Len(call.bytes) >= 2 /\ call.bytes[1] = 254 /\ call.bytes[2] = 255
             THEN "utf-16be"
             ELSE IF Cardinality(PatternOffsets(call.bytes)) > 20
             THEN "utf-16le"
             ELSE "utf-8")

\* C17 witness: a buffer that starts FE FF and goes on with more than 20
\* pattern pairs is decoded as UTF-16BE.
C17_Witness ==
    /\ call.phase = "resolved"
    /\ Len(call.bytes) >= 2 /\ call.bytes[1] = 254 /\ call.bytes[2] = 255
    /\ Cardinality(PatternOffsets(call.bytes)) > 20
    /\ call.decoder = "utf-16be"

\* C18: empty input and no trades recovered are two distinct errors for both
\* input kinds: delimited text of fewer than two non-empty lines, or a markup
\* document without any row or table, fails with the empty-input error;
\* input that has rows of which none gives a valid trade fails with the
\* no-trades error.
C18_EmptyAndNoTradesDistinct ==
    \A i \in 1 .. Len(returned) :
        LET entry == returned[i]
        IN  /\ (IsDelimited(entry) /\ entry.file.readable) =>
                   /\ NonBlankLines(entry) < 2 =>
                          (~entry.result.ok /\ entry.result.error = ErrEmptyCSV)
                   /\ (NonBlankLines(entry) >= 2 /\ ~entry.result.ok) =>
                          entry.result.error = ErrNoTradesCSV
            /\ (IsMarkup(entry) /\ entry.file.readable) =>
                   /\ AllRows(entry.file.content.tables) = << >> =>
                          /\ ~entry.result.ok
                          /\ entry.result.error \notin {ErrNoTradesHTML, ErrNoTradesCSV}
                   /\ (AllRows(entry.file.content.tables) # << >> /\ ~entry.result.ok) =>
                          entry.result.error = ErrNoTradesHTML

\* The Trades of the rows that normalize to a valid trade, in row order.
RECURSIVE ValidTradesOf(_, _)
ValidTradesOf(outcomes, k) ==
    IF k > Len(outcomes) THEN << >>
    ELSE (IF outcomes[k].kind = "trade" /\ isValidTrade(outcomes[k].trade)
          THEN <<outcomes[k].trade>> ELSE << >>) \o ValidTradesOf(outcomes, k + 1)

\* What each data line of a delimited file normalizes to; a line of fewer
\* than five cells is not a row.
LineOutcomes(entry) ==
    LET lines == NonBlank(entry.file.content.lines)
        map == detectCSVColumns(LowerCells(lines[1]))
        rows == IF map # NoMap THEN Tail(lines) ELSE lines
    IN  [k \in 1 .. Len(rows) |->
            IF Len(rows[k]) < 5 THEN RowNull
            ELSE IF map # NoMap THEN mapColumnsToTrade(rows[k], map)
            ELSE parseGenericCSVRow(rows[k])]

VisibleTexts(cells) == Texts(SelectSeq(cells, LAMBDA c : ~IsHiddenCell(c)))

\* A markup file of one table that opens with a header row giving a column
\* map, outside any Positions section.
IsMappedTable(entry) ==
    /\ IsMarkup(entry) /\ entry.file.readable
    /\ parseMT5Report(entry.file.content) = << >>
    /\ Len(entry.file.content.tables) = 1
    /\ Len(entry.file.content.tables[1]) >= 2
    /\ Len(entry.file.content.tables[1][1]) >= 4
    /\ isHeaderRow(VisibleTexts(entry.file.content.tables[1][1]))
    /\ detectHTMLColumns(VisibleTexts(entry.file.content.tables[1][1])) # NoMap

TableOutcomes(entry) ==
    LET header == VisibleTexts(entry.file.content.tables[1][1])
        rows == Tail(entry.file.content.tables[1])
    IN  [k \in 1 .. Len(rows) |->
            IF Len(rows[k]) < 4 \/ isNonTradeRow(VisibleTexts(rows[k])) THEN RowNull
            ELSE mapColumnsToTrade(VisibleTexts(rows[k]), detectHTMLColumns(header))]

ResultIs(entry, trades) ==
    IF trades = << >> THEN ~entry.result.ok
    ELSE entry.result.ok /\ entry.result.trades = trades

\* C19: a row that throws during normalization is skipped without aborting
\* the parse: the result holds exactly the Trades of the rows that normalize
\* to a valid trade, before and after the throwing row, in row order, and
\* the parse fails only if there is none.
C19_ThrowingRowSkipped ==
    \A i \in 1 .. Len(returned) :
        LET entry == returned[i]
        IN  /\ (IsDelimited(entry) /\ Extracted(entry)) =>
                   ResultIs(entry, ValidTradesOf(LineOutcomes(entry), 1))
            /\ IsMappedTable(entry) =>
                   ResultIs(entry, ValidTradesOf(TableOutcomes(entry), 1))

\* C19 witness: a parsed delimited file with a throwing row between two rows
\* that gave the two Trades of the result.
C19_Witness ==
    \E i \in 1 .. Len(returned) :
        /\ IsDelimited(returned[i]) /\ Extracted(returned[i])
        /\ Len(LineOutcomes(returned[i])) = 3
        /\ LineOutcomes(returned[i])[2] = RowThrew
        /\ returned[i].result.ok
        /\ Len(returned[i].result.trades) = 2
        /\ returned[i].result.trades[1] = LineOutcomes(returned[i])[1].trade
        /\ returned[i].result.trades[2] = LineOutcomes(returned[i])[3].trade
        /\ returned[i].result.trades[1] # returned[i].result.trades[2]

\* The input in ascending closeTime order, trades of equal closeTime in input
\* order: the place of input[i] is one more than the number of trades that
\* come before it.
PlaceOf(i) ==
    1 + Cardinality({ j \in 1 .. Len(input) :
                          \/ input[j].closeTime < input[i].closeTime
                          \/ input[j].closeTime = input[i].closeTime /\ j < i })
ByCloseTime ==
    [p \in 1 .. Len(input) |-> input[CHOOSE i \in 1 .. Len(input) : PlaceOf(i) = p]]

\* The lengths of the runs of consecutive trades of ByCloseTime whose net
\* profit has the sign (1 for positive, -1 for negative), and 0.
RunLengthsOf(sign) ==
    {0} \cup { n \in 1 .. Len(input) :
                  \E a \in 1 .. Len(input) - n + 1 :
                      \A k \in a .. a + n - 1 : NetOf(ByCloseTime[k]) * sign > 0 }
LongestRun(sign) == CHOOSE n \in RunLengthsOf(sign) : \A m \in RunLengthsOf(sign) : m <= n

\* C20: getMaxWinStreak (getMaxLoseStreak) is the length of the longest run
\* of consecutive trades, in ascending closeTime order, whose net profit is
\* strictly positive (strictly negative); a breakeven or opposite-sign trade
\* ends the run, and the result is 0 when no trade has that sign.
C20_StreakIsLongestRun ==
    stats.ready =>
        /\ stats.maxWinStreak = LongestRun(1)
        /\ stats.maxLoseStreak = LongestRun(-1)

\* C20 witness: three trades given out of closeTime order, two wins that a
\* breakeven trade separates once sorted, so that the longest win run is 1.
C20_Witness ==
    /\ stats.ready
    /\ Len(input) = 3
    /\ ByCloseTime # input
    /\ NetOf(ByCloseTime[1]) > 0 /\ NetOf(ByCloseTime[2]) = 0 /\ NetOf(ByCloseTime[3]) > 0
    /\ NetOf(input[1]) > 0 /\ NetOf(input[2]) > 0
    /\ stats.maxWinStreak = 1
    /\ stats.maxLoseStreak = 0

\* The running peak at point j: the highest equity among points 1..j.
RunningPeak(curve, j) ==
    CHOOSE e \in { curve[i].equity : i \in 1 .. j } :
        \A i \in 1 .. j : curve[i].equity <= e

\* The largest peak-to-trough decline: the maximum of equity[i] - equity[j]
\* over the pairs with i <= j.
LargestDecline(curve) ==
    LET pairs == { p \in (1 .. Len(curve)) \X (1 .. Len(curve)) : p[1] <= p[2] }
        ds == { curve[p[1]].equity - curve[p[2]].equity : p \in pairs }
    IN  CHOOSE d \in ds : \A e \in ds : e <= d

\* C21: getMaxDrawdown is the largest peak-to-trough decline of the equity
\* curve, the maximum over the pairs i <= j of equity[i] - equity[j], which
\* is also the largest distance of a point below the running peak at that
\* point; it is 0 for an empty collection.
C21_DrawdownIsLargestDecline ==
    stats.ready =>
        IF Len(input) = 0 THEN stats.maxDrawdown = 0
        ELSE /\ stats.maxDrawdown = LargestDecline(stats.equityCurve)
             /\ \A j \in 1 .. Len(stats.equityCurve) :
                    RunningPeak(stats.equityCurve, j) - stats.equityCurve[j].equity
                        <= stats.maxDrawdown
             /\ \E j \in 1 .. Len(stats.equityCurve) :
                    RunningPeak(stats.equityCurve, j) - stats.equityCurve[j].equity
                        = stats.maxDrawdown

\* C21 witness: a curve whose largest decline joins two points that are not
\* neighbours, no single step falling that far.
C21_Witness ==
    /\ stats.ready
    /\ \E i \in 1 .. Len(stats.equityCurve), j \in 1 .. Len(stats.equityCurve) :
           /\ i + 1 < j
           /\ stats.equityCurve[i].equity - stats.equityCurve[j].equity = stats.maxDrawdown
    /\ \A i \in 1 .. Len(stats.equityCurve) - 1 :
           stats.equityCurve[i].equity - stats.equityCurve[i + 1].equity < stats.maxDrawdown

RECURSIVE SumCounts(_)
SumCounts(counts) ==
    IF counts = << >> THEN 0 ELSE Head(counts) + SumCounts(Tail(counts))

\* C22: for a non-empty collection of N trades the histogram has
\* min(20, ceil(sqrt(N))) bins and every trade's profit, the maximum and the
\* profits of a collection where all are equal included, is counted in one
\* bin, so that the bin counts sum to N.
C22_HistogramCountsEveryTrade ==
    (stats.ready /\ Len(input) > 0) =>
        /\ Len(stats.pnlDistribution.counts)
               = (IF CeilSqrt(Len(input)) < MaxBins THEN CeilSqrt(Len(input)) ELSE MaxBins)
        /\ Len(stats.pnlDistribution.centers) = Len(stats.pnlDistribution.counts)
        /\ SumCounts(stats.pnlDistribution.counts) = Len(input)

FieldsOf(kind) == IF kind = "csv" THEN CSVFields ELSE HTMLFields

\* The 0-based indexes, among the first seen columns, of the header cells
\* whose text matches the pattern of the field.
MatchingColumns(kind, columns, key, seen) ==
    { i \in 0 .. seen - 1 :
          IF kind = "csv" THEN CSVPatternTest(key, At(columns, i))
          ELSE HTMLPatternTest(key, At(columns, i)) }

\* C23: in named-column inference each field is mapped to the leftmost
\* header cell that matches its pattern: after every column the map holds,
\* for each field, the least matching index seen so far (so that a later
\* cell never changes it), a field without a matching cell is unmapped, and
\* the map that is returned is that map.
C23_LeftmostMatchWins ==
    call.phase \in {"detecting", "detected"} =>
        LET seen == IF call.phase = "detecting" THEN call.index ELSE Len(call.columns)
        IN  /\ \A key \in FieldsOf(call.kind) :
                   LET matches == MatchingColumns(call.kind, call.columns, key, seen)
                   IN  IF matches = {} THEN key \notin DOMAIN call.map
                       ELSE /\ key \in DOMAIN call.map
                            /\ call.map[key] = MinOf(matches)
            /\ DOMAIN call.map \subseteq FieldsOf(call.kind)
            /\ (call.phase = "detected" /\ call.result # NoMap) => call.result = call.map

\* C23 witness: a returned map with a field that two header cells match, the
\* second of them the last cell, and a field that none matches.
C23_Witness ==
    /\ call.phase = "detected"
    /\ call.result # NoMap
    /\ \E key \in FieldsOf(call.kind) :
           LET matches == MatchingColumns(call.kind, call.columns, key, Len(call.columns))
           IN  /\ Cardinality(matches) >= 2
               /\ Len(call.columns) - 1 \in matches
               /\ call.result[key] # Len(call.columns) - 1
    /\ \E key \in FieldsOf(call.kind) : key \notin DOMAIN call.result

ClosingMarkers == {"Orders", "Deals", "Results"}

\* The row has a th cell 'Positions' with no closing marker behind it.
OpensPositions(row) ==
    \E i \in 1 .. Len(row) :
        /\ row[i].tag = "th" /\ row[i].text = "Positions"
        /\ \A j \in i + 1 .. Len(row) :
               ~(row[j].tag = "th" /\ row[j].text \in ClosingMarkers)

HasClosingMarker(row) ==
    \E i \in 1 .. Len(row) : row[i].tag = "th" /\ row[i].text \in ClosingMarkers

\* The column-header row of the Positions section: Time first, with
\* Position and Symbol among its cells.
IsColumnHeader(row) ==
    /\ Len(row) > 0
    /\ row[1].text = "Time"
    /\ \E i \in 1 .. Len(row) : row[i].text = "Position"
    /\ \E i \in 1 .. Len(row) : row[i].text = "Symbol"

\* The trades parseMT5Report has pushed when it is through the first k rows.
TradesThrough(rows, k) ==
    parseMT5Report(Document("", "", "", OneTable(SubSeq(rows, 1, k))))

\* C24: parseMT5Report emits a Trade only from a row that comes after a
\* 'Positions' marker and after a column-header row of that section, with no
\* 'Orders'/'Deals'/'Results' marker in between: after a closing marker no
\* row yields a Trade until a new marker and a new column-header row have
\* both been seen.
C24_TradesOnlyInsidePositions ==
    \A e \in 1 .. Len(returned) :
        IsMarkup(returned[e]) =>
            LET doc == returned[e].file.content
                rows == AllRows(doc.tables)
            IN  /\ \A k \in 1 .. Len(rows) :
                       Len(TradesThrough(rows, k)) > Len(TradesThrough(rows, k - 1)) =>
                           \E p \in 1 .. k - 1 : \E h \in p .. k - 1 :
                               /\ OpensPositions(rows[p])
                               /\ IsColumnHeader(rows[h])
                               /\ \A q \in p + 1 .. k : ~HasClosingMarker(rows[q])
                /\ Len(parseMT5Report(doc)) > 0 =>
                       /\ returned[e].result.ok
                       /\ returned[e].result.trades = parseMT5Report(doc)

\* C24 witness: a report whose section was closed and opened again, with a
\* data row that yields a Trade after the new column-header row.
C24_Witness ==
    \E e \in 1 .. Len(returned) :
        /\ IsMarkup(returned[e])
        /\ returned[e].result.ok
        /\ LET rows == AllRows(returned[e].file.content.tables)
           IN  \E q \in 1 .. Len(rows) : \E k \in q + 1 .. Len(rows) :
                   /\ HasClosingMarker(rows[q])
                   /\ \E h \in 1 .. q - 1 : IsColumnHeader(rows[h])
                   /\ Len(TradesThrough(rows, k)) > Len(TradesThrough(rows, k - 1))

\* The character at place i of the line is outside quotes: an even number of
\* quote characters comes before it.
OutsideQuotes(line, i) ==
    Cardinality({ j \in 1 .. i - 1 : line[j] = "\"" }) % 2 = 0

IsSeparator(line, i) == line[i] \in {",", ";", "\t"} /\ OutsideQuotes(line, i)

Separators(line) == { i \in 1 .. Len(line) : IsSeparator(line, i) }

\* The place of the c-th separator of the line; 0 before the first and one
\* past the end after the last.
SeparatorAt(line, c) ==
    IF c = 0 THEN 0
    ELSE IF c > Cardinality(Separators(line)) THEN Len(line) + 1
    ELSE CHOOSE i \in Separators(line) :
             Cardinality({ j \in Separators(line) : j < i }) = c - 1

\* The characters at places a..b of the line that are neither quotes nor
\* separators, in their order.
RECURSIVE OtherCharacters(_, _, _)
OtherCharacters(line, a, b) ==
    IF b < a THEN << >>
    ELSE LET before == OtherCharacters(line, a, b - 1)
         IN  IF line[b] = "\"" \/ IsSeparator(line, b) THEN before
             ELSE Append(before, line[b])

RECURSIVE Concatenated(_)
Concatenated(cells) ==
    IF cells = << >> THEN << >> ELSE Head(cells) \o Concatenated(Tail(cells))

IsBlank(char) == char = " " \/ char = "\t"

\* The cell is the text without the blanks and tabs at its two ends.
IsTrimmed(cell, text) ==
    \E lo \in 1 .. Len(text) + 1 : \E hi \in 0 .. Len(text) :
        /\ cell = SubSeq(text, lo, hi)
        /\ \A j \in 1 .. lo - 1 : IsBlank(text[j])
        /\ \A j \in hi + 1 .. Len(text) : IsBlank(text[j])
        /\ cell # << >> => ~IsBlank(cell[1]) /\ ~IsBlank(cell[Len(cell)])

\* C25 as stated: parseCSVLine returns one more cell than there are commas,
\* semicolons and tabs outside quotes; no cell holds a quote character; and
\* the cells concatenated are the line's other characters in their order, a
\* delimiter inside quotes among them.
C25_CellsKeepEveryCharacter ==
    call.phase = "split" =>
        /\ Len(call.values) = Cardinality(Separators(input)) + 1
        /\ \A c \in 1 .. Len(call.values) : \A k \in 1 .. Len(call.values[c]) :
               call.values[c][k] # "\""
        /\ Concatenated(call.values) = OtherCharacters(input, 1, Len(input))

\* C25 as amended: one more cell than separators outside quotes, no quote
\* character in a cell, and cell c is made of the other characters between
\* separator c - 1 and separator c, in their order, without the blanks and
\* tabs at its two ends.
C25_CellsKeepTrimmedCharacters ==
    call.phase = "split" =>
        /\ Len(call.values) = Cardinality(Separators(input)) + 1
        /\ \A c \in 1 .. Len(call.values) : \A k \in 1 .. Len(call.values[c]) :
               call.values[c][k] # "\""
        /\ \A c \in 1 .. Len(call.values) :
               IsTrimmed(call.values[c],
                         OtherCharacters(input, SeparatorAt(input, c - 1) + 1,
                                         SeparatorAt(input, c) - 1))

\* C25 witness: a line split in two cells or more, with a delimiter kept
\* inside quotes in one cell and a blank or tab removed from the end of one.
C25_Witness ==
    /\ call.phase = "split"
    /\ Len(call.values) >= 2
    /\ \E c \in 1 .. Len(call.values) : \E k \in 1 .. Len(call.values[c]) :
           call.values[c][k] \in {",", ";", "\t"}
    /\ Concatenated(call.values) # OtherCharacters(input, 1, Len(input))

\* C26: computing statistics never changes its input.  No step of the
\* calculator changes the caller's collection (its trades, their order, their
\* fields), and once constructed the calculator stays as it is, so that a
\* later calculateAll returns what an earlier one returned.
C26_InputUnchanged ==
    [][/\ input' = input
       /\ calc.ready => calc' = calc
       /\ stats.ready => stats' = stats]_vars

\* C26 witness: statistics computed on a collection given out of close-time
\* order, which the constructor had to sort.
C26_Witness ==
    /\ stats.ready
    /\ calc.ready
    /\ Len(input) >= 2
    /\ calc.sortedTrades # input
    /\ calc.trades = input
    /\ stats = calculateAll(calc)

\* The entry of the history that the i-th submitted file's call left.
EntryOf(i) == returned[CHOOSE k \in 1 .. Len(call.settled) : call.settled[k] = i]

\* C27: when a second file is submitted while processFile for a first file
\* still waits for its read, then after both calls have finished (the second
\* one with success) currentTrades, currentCurrency and the dashboard are
\* those of the second file, in whichever order the reads completed.
C27_LastSubmittedWins ==
    (call.phase = "overlapped" /\ call.pending = {} /\ EntryOf(2).result.ok) =>
        /\ currentTrades = EntryOf(2).result
        /\ EntryOf(2).result.meta => currentCurrency = EntryOf(2).result.currency
        /\ dashboardShown
        /\ input = EntryOf(2).result.trades
        /\ calc = NewStatsCalculator(EntryOf(2).result.trades)

\* C28: a failed processFile leaves the application state as it was: across
\* the step on which a call ends in an error (unsupported format, read
\* failure, empty input, no trades), currentTrades, currentCurrency and the
\* parser's stored currency and account metadata do not change.
C28_FailureLeavesStateUnchanged ==
    [][(/\ call.phase = "reading"
        /\ call' = Idle
        /\ ~returned'[Len(returned')].result.ok)
       => /\ currentTrades' = currentTrades
          /\ currentCurrency' = currentCurrency
          /\ parser'.currency = parser.currency
          /\ parser'.accountInfo = parser.accountInfo]_vars

\* The months since year 0 of the month the calendar shows.
MonthIndex(this) == this.currentYear * 12 + this.currentMonth

\* C29: after any sequence of dashboard loads and month navigations, one
\* click on the next-month (previous-month) button moves the calendar by
\* exactly one month forward (backward), with currentMonth in 0..11 and the
\* year changed exactly when the month wraps.
C29_OneClickOneMonth ==
    [][/\ ClickNextMonth =>
              /\ MonthIndex(calendar') = MonthIndex(calendar) + 1
              /\ calendar'.currentMonth \in 0 .. 11
       /\ ClickPrevMonth =>
              /\ MonthIndex(calendar') = MonthIndex(calendar) - 1
              /\ calendar'.currentMonth \in 0 .. 11]_vars

ColumnNames ==
    {"Symbol", "Type", "Volume", "Profit", "Commission", "Swap", "Price", "Time",
     "Ticket"}

\* The line consists of column names rather than data.
IsColumnNameLine(line) ==
    /\ line # << >>
    /\ \A i \in 1 .. Len(line) : line[i] \in ColumnNames

\* C30: a header line is never emitted as a Trade: when the first line of a
\* delimited file consists of column names and no later line does, the
\* result has no Trade made from that line (none whose symbol is one of its
\* cells, and no more trades than there are lines after it), whether the
\* inference accepted the line as a header or not.
C30_HeaderNeverATrade ==
    \A e \in 1 .. Len(returned) :
        LET lines == NonBlank(returned[e].file.content.lines)
            trades == returned[e].result.trades
        IN  (/\ IsDelimited(returned[e])
             /\ returned[e].result.ok
             /\ lines # << >>
             /\ IsColumnNameLine(lines[1])
             /\ \A k \in 2 .. Len(lines) : ~IsColumnNameLine(lines[k])) =>
                /\ Len(trades) <= Len(lines) - 1
                /\ \A t \in 1 .. Len(trades) :
                       \A i \in 1 .. Len(lines[1]) : trades[t].symbol # lines[1][i]

====
